---- MODULE Spec2Model ----
(***************************************************************************)
(* Model of the research-assistant backend: the outline (Section) tree,    *)
(* the planning Phases and Tasks, the brainstorm hook and the dashboard    *)
(* status read.  The committed database rows are the state; every request  *)
(* handler is one action that runs to its response.                        *)
(***************************************************************************)
EXTENDS Integers, Sequences, FiniteSets, TLC

VARIABLES sections, phases, tasks, brain, now, last, users, pending, accepted,
          captchas, outbox, documents, tags, document_tags, cloud_documents,
          versions, saving

\* the user table: committed rows, rows flushed by the open session and not
\* committed, and the credentials whose registration was answered
\* 'Registration successful'
accounts == <<users, pending, accepted>>

\* the EmailCaptcha rows and the messages handed to the mail server
mailing == <<captchas, outbox>>

\* the CloudDocument rows and the DocumentVersion rows
writing == <<cloud_documents, versions>>

\* the Reference rows (documents), the Tag rows and the rows of the
\* document_tags table
library == <<documents, tags, document_tags, writing>>

vars == <<sections, phases, tasks, brain, now, last, users, pending, accepted,
          captchas, outbox, documents, tags, document_tags, cloud_documents,
          versions, saving>>

(***************************************************************************)
(* Bounds                                                                  *)
(***************************************************************************)
\* most nodes in one outline payload
MaxNodes == 3
\* largest Section primary key the model allocates
MaxSecId == 4
\* most descriptors without a title in one payload
MaxMissing == 1
\* most descriptors with a summary in one payload
MaxSummaries == 1

\* clock ticks per calendar day; the last tick of a day is 23:59:59.999999
TicksPerDay == 2
\* last clock tick the model reaches
MaxNow == 3
\* largest Phase and Task primary keys the model allocates
MaxPhaseId == 2
MaxTaskId == MaxPhaseId + 1
\* most brainstorm entries stored
MaxBrain == 1

\* authenticated callers (JWT identities)
Users == {1, 2}

\* a descriptor without a 'title' key
NoTitle == "<no title>"
\* Python None (item.get('summary') of a descriptor without 'summary')
None == "<None>"
\* NULL parent_id
NoParent == 0

PayloadTitles == {"a", NoTitle}
PayloadSummaries == {None, "s"}

(***************************************************************************)
(* Request payloads: ordered forests of node descriptors                   *)
(*   {title?, summary?, subsections: [...]}                                *)
(***************************************************************************)
RECURSIVE ForestsOf(_)
\* all ordered forests with exactly n descriptors
ForestsOf(n) ==
    IF n = 0 THEN {<<>>}
    ELSE UNION { { <<[title |-> t, summary |-> s, subsections |-> kids]>> \o rest :
                     t \in PayloadTitles, s \in PayloadSummaries,
                     kids \in ForestsOf(k - 1), rest \in ForestsOf(n - k) } :
                 k \in 1..n }

RECURSIVE CountMissingTitles(_)
\* number of descriptors of a forest without a title
CountMissingTitles(forest) ==
    IF forest = <<>> THEN 0
    ELSE (IF Head(forest).title = NoTitle THEN 1 ELSE 0)
         + CountMissingTitles(Head(forest).subsections)
         + CountMissingTitles(Tail(forest))

RECURSIVE CountSummaries(_)
\* number of descriptors of a forest with a summary
CountSummaries(forest) ==
    IF forest = <<>> THEN 0
    ELSE (IF Head(forest).summary # None THEN 1 ELSE 0)
         + CountSummaries(Head(forest).subsections)
         + CountSummaries(Tail(forest))

Outlines ==
    { o \in UNION { ForestsOf(n) : n \in 0..MaxNodes } :
        /\ CountMissingTitles(o) <= MaxMissing
        /\ CountSummaries(o) <= MaxSummaries }

\* JSON bodies of POST /outline/save: with or without the 'outline' key
SaveBodies == {[has |-> FALSE, outline |-> <<>>]} \cup
              {[has |-> TRUE, outline |-> o] : o \in Outlines}

(***************************************************************************)
(* Section rows: [id, title, summary, parent_id, order, user_id].  The      *)
(* created_at timestamp is written once and read by no handler; it is not  *)
(* kept.                                                                   *)
(***************************************************************************)
MaxOf(S) == IF S = {} THEN 0 ELSE CHOOSE m \in S : \A x \in S : x <= m

\* primary key the store gives the next inserted Section row
NextSectionId(db) == MaxOf({s.id : s \in db}) + 1

\* Section.subsections: the rows whose parent_id is this row's id
Subsections(db, id) == {s \in db : s.parent_id = id}

RECURSIVE SortByOrder(_)
\* rows in ascending order, ties in primary-key order
SortByOrder(S) ==
    IF S = {} THEN <<>>
    ELSE LET f == CHOOSE x \in S : \A y \in S :
                      \/ x.order < y.order
                      \/ x.order = y.order /\ x.id <= y.id
         IN <<f>> \o SortByOrder(S \ {f})

RECURSIVE to_dict(_, _)
\* Section.to_dict: the row with its subtree nested inline
to_dict(db, sec) ==
    LET kids == SortByOrder(Subsections(db, sec.id))
    IN [id |-> sec.id, title |-> sec.title, summary |-> sec.summary,
        order |-> sec.order,
        subsections |-> [i \in 1..Len(kids) |-> to_dict(db, kids[i])]]

(***************************************************************************)
(* _recreate_sections                                                      *)
(***************************************************************************)
RECURSIVE RecreateFrom(_, _, _, _, _), RecreateChildren(_, _, _, _, _)
\* the loop "for idx, item in enumerate(items)" from position i on;
\* st = [db, ok]: the session's rows and whether no exception was raised
RecreateFrom(items, i, user_id, parent_id, st) ==
    IF ~st.ok \/ i > Len(items) THEN st
    ELSE LET item == items[i]
         IN IF item.title = NoTitle
            THEN [db |-> st.db, ok |-> FALSE]
            ELSE LET sec == [id |-> NextSectionId(st.db),
                             title |-> item.title,
                             summary |-> item.summary,
                             parent_id |-> parent_id,
                             order |-> i - 1,
                             user_id |-> user_id]
                     st1 == [db |-> st.db \cup {sec}, ok |-> TRUE]
                     st2 == RecreateChildren(item.subsections, 1, user_id, sec.id, st1)
                 IN RecreateFrom(items, i + 1, user_id, parent_id, st2)

\* the loop "for child in item.get('subsections', [])": each child is
\* passed on as the one-element list [child]
RecreateChildren(kids, j, user_id, parent_id, st) ==
    IF ~st.ok \/ j > Len(kids) THEN st
    ELSE RecreateChildren(kids, j + 1, user_id, parent_id,
                          RecreateFrom(<<kids[j]>>, 1, user_id, parent_id, st))

_recreate_sections(items, user_id, db) ==
    RecreateFrom(items, 1, user_id, NoParent, [db |-> db, ok |-> TRUE])

(***************************************************************************)
(* Outline handlers as functions of the committed rows                     *)
(***************************************************************************)
\* the lookup without the owner filter
FindSection_AnyOwner(db, sec_id, uid) == {s \in db : s.id = sec_id}

\* Section.query.filter_by(id=sec_id, user_id=uid).first()
FindSection(db, sec_id, uid) == {s \in db : s.id = sec_id /\ s.user_id = uid}

\* GET /outline/get without an id
GetOutlineAll(db, uid) ==
    LET roots == SortByOrder({s \in db : s.parent_id = NoParent /\ s.user_id = uid})
    IN [i \in 1..Len(roots) |-> to_dict(db, roots[i])]

\* the save without the empty-outline rejection
SaveOutlineResult_NoEmptyCheck(db, uid, body) ==
    LET outline == IF body.has THEN body.outline ELSE <<>>
        cleared == {s \in db : s.user_id # uid}
        st      == _recreate_sections(outline, uid, cleared)
    IN IF st.ok THEN [db |-> st.db, status |-> 201]
       ELSE [db |-> cleared, status |-> 500]

\* the mutant: the delete removes the caller's root Sections only
SaveOutlineResult_RootsOnly(db, uid, body) ==
    LET outline == IF body.has THEN body.outline ELSE <<>>
        cleared == {s \in db : ~(s.user_id = uid /\ s.parent_id = NoParent)}
        st      == _recreate_sections(outline, uid, cleared)
    IN IF outline = <<>> THEN [db |-> db, status |-> 400]
       ELSE IF st.ok THEN [db |-> st.db, status |-> 201]
       ELSE [db |-> cleared, status |-> 500]

\* POST /outline/save: the rows left committed and the response status
SaveOutlineResult(db, uid, body) ==
    LET outline == IF body.has THEN body.outline ELSE <<>>
        cleared == {s \in db : s.user_id # uid}
        st      == _recreate_sections(outline, uid, cleared)
    IN IF outline = <<>> THEN [db |-> db, status |-> 400]
       ELSE IF st.ok THEN [db |-> st.db, status |-> 201]
       ELSE [db |-> cleared, status |-> 500]

\* the delete of the node alone
DeleteSubtree_NodeOnly(db, node) == {node.id}

RECURSIVE DeleteSubtree(_, _)
\* _delete_subtree: the ids handed to db.session.delete
DeleteSubtree(db, node) ==
    UNION { DeleteSubtree(db, c) : c \in Subsections(db, node.id) } \cup {node.id}

NoData == <<>>

\* the fields a PUT /update/<id> body can carry
UpdateFields == {"title", "summary", "order"}

\* JSON bodies of PUT /update/<id>: the 'outline' object with the keys in
\* "fields" present
UpdateBodies ==
    { [fields |-> UpdateFields, title |-> "b", summary |-> "s", order |-> 1] }

NoUpdate == [fields |-> {}, title |-> "b", summary |-> "s", order |-> 1]

\* the loop "for field in ('title', 'summary', 'order')" of update_outline
ApplyUpdate(sec, data) ==
    [sec EXCEPT !.title   = IF "title" \in data.fields THEN data.title ELSE @,
                !.summary = IF "summary" \in data.fields THEN data.summary ELSE @,
                !.order   = IF "order" \in data.fields THEN data.order ELSE @]

\* PUT /update/<id>: the rows left committed, the status and the data
UpdateOutlineResult(db, uid, sec_id, data) ==
    LET found == FindSection(db, sec_id, uid)
    IN IF found = {} THEN [db |-> db, status |-> 404, data |-> NoData]
       ELSE LET sec  == CHOOSE x \in found : TRUE
                sec2 == ApplyUpdate(sec, data)
                db2  == (db \ {sec}) \cup {sec2}
            IN [db |-> db2, status |-> 200, data |-> <<to_dict(db2, sec2)>>]

\* GET /outline/get/<id>
GetOutlineOne(db, uid, sec_id) ==
    LET found == FindSection(db, sec_id, uid)
    IN IF found = {} THEN [status |-> 404, data |-> NoData]
       ELSE [status |-> 200, data |-> <<to_dict(db, CHOOSE x \in found : TRUE)>>]

\* DELETE /delete/<id>: the rows left committed, the status and the
\* primary keys the commit deleted
DeleteOutlineResult(db, uid, sec_id) ==
    LET found == FindSection(db, sec_id, uid)
    IN IF found = {} THEN [db |-> db, status |-> 404, removed |-> {}]
       ELSE LET gone == DeleteSubtree(db, CHOOSE x \in found : TRUE)
            IN [db |-> {s \in db : s.id \notin gone}, status |-> 204, removed |-> gone]

NoBody == [has |-> FALSE, outline |-> <<>>]

\* a code of no digits: the captcha key missing or empty (both are falsy)
NoCode == <<>>

\* a JSON body without username, email and password
NoCred == [username |-> None, email |-> None, password |-> None]

\* the last request and its response: op, caller, JSON body, URL id,
\* status, JSON data, and the primary keys its commit deleted (for the
\* deletion of a tag: the documents that lost it); the Phase
\* and Task ids of a planning URL and the non-empty W fields of a
\* brainstorm body are set by PlanningRequest and BrainRequest, the
\* credentials of a register or login body by AuthRequest, the code of a
\* captcha or reset request and whether its mail went out by CaptchaRequest,
\* the document id, tag id and name of a tag request by TagRequest, the
\* document id, file and version of a version request by VersionRequest
Request(op, uid, body, data_in, sec_id, status, data, removed) ==
    [op |-> op, user |-> uid, body |-> body, update |-> data_in, sec_id |-> sec_id,
     status |-> status, data |-> data, removed |-> removed,
     phase_id |-> 0, task_id |-> 0, filled |-> {}, cred |-> NoCred,
     captcha |-> NoCode, sent |-> FALSE,
     document_id |-> 0, tag_id |-> 0, name |-> <<>>,
     version |-> <<0, 0>>, has_file |-> FALSE]

\* a request to /planning/<phase_id> or /planning/<phase_id>/tasks/<task_id>
PlanningRequest(op, uid, phase_id, task_id, status, data, removed) ==
    [Request(op, uid, NoBody, NoUpdate, 0, status, data, removed)
        EXCEPT !.phase_id = phase_id, !.task_id = task_id]

\* a request to /brainstorm/save
BrainRequest(op, uid, filled, status) ==
    [Request(op, uid, NoBody, NoUpdate, 0, status, NoData, {})
        EXCEPT !.filled = filled]

Init ==
    /\ sections = {}
    /\ phases = {}
    /\ tasks = {}
    /\ brain = {}
    /\ now = 0
    /\ last = Request("none", 0, NoBody, NoUpdate, 0, 0, NoData, {})
    /\ users = {}
    /\ pending = {}
    /\ accepted = {}
    /\ captchas = {}
    /\ outbox = <<>>
    /\ documents = {}
    /\ tags = {}
    /\ document_tags = {}
    /\ cloud_documents = {}
    /\ versions = {}
    /\ saving = {}

get_outline_all(uid) ==
    /\ last' = Request("get_outline", uid, NoBody, NoUpdate, 0, 200,
                       GetOutlineAll(sections, uid), {})
    /\ UNCHANGED <<mailing, library, saving, accounts, sections, phases, tasks, brain, now>>

get_outline_one(uid, sec_id) ==
    /\ \E r \in {GetOutlineOne(sections, uid, sec_id)} :
          last' = Request("get_outline_one", uid, NoBody, NoUpdate, sec_id,
                          r.status, r.data, {})
    /\ UNCHANGED <<mailing, library, saving, accounts, sections, phases, tasks, brain, now>>

save_outline(uid, body) ==
    /\ \E r \in {SaveOutlineResult(sections, uid, body)} :
          /\ \A s \in r.db : s.id <= MaxSecId
          /\ sections' = r.db
          /\ last' = Request("save_outline", uid, body, NoUpdate, 0, r.status, NoData, {})
    /\ UNCHANGED <<mailing, library, saving, accounts, phases, tasks, brain, now>>

update_outline(uid, sec_id, data) ==
    /\ \E r \in {UpdateOutlineResult(sections, uid, sec_id, data)} :
          /\ sections' = r.db
          /\ last' = Request("update_outline", uid, NoBody, data, sec_id,
                             r.status, r.data, {})
    /\ UNCHANGED <<mailing, library, saving, accounts, phases, tasks, brain, now>>

delete_outline(uid, sec_id) ==
    /\ \E r \in {DeleteOutlineResult(sections, uid, sec_id)} :
          /\ sections' = r.db
          /\ last' = Request("delete_outline", uid, NoBody, NoUpdate, sec_id,
                             r.status, NoData, r.removed)
    /\ UNCHANGED <<mailing, library, saving, accounts, phases, tasks, brain, now>>

\* the outline save and the read-back of the whole outline
NextOutline ==
    \E uid \in Users :
        \/ get_outline_all(uid)
        \/ \E body \in SaveBodies : save_outline(uid, body)

\* save bodies of the edit specification: every descriptor titled, none
\* with a summary
EditBodies ==
    { b \in SaveBodies : /\ CountMissingTitles(b.outline) = 0
                         /\ CountSummaries(b.outline) = 0 }

SectionIds == 1..MaxSecId

\* the save, the read of one Section and the delete of a subtree
NextEdit ==
    \E uid \in Users :
        \/ \E body \in EditBodies : save_outline(uid, body)
        \/ \E sec_id \in SectionIds : get_outline_one(uid, sec_id)
        \/ \E sec_id \in SectionIds : delete_outline(uid, sec_id)

RECURSIVE CountDescriptors(_)
\* number of descriptors of a forest
CountDescriptors(forest) ==
    IF forest = <<>> THEN 0
    ELSE 1 + CountDescriptors(Head(forest).subsections) + CountDescriptors(Tail(forest))

\* save bodies of the update specification: one descriptor fewer
UpdateSaveBodies == { b \in EditBodies : CountDescriptors(b.outline) < MaxNodes }

\* all single-Section operations on saved outlines
NextUpdate ==
    \E uid \in Users :
        \/ \E body \in UpdateSaveBodies : save_outline(uid, body)
        \/ \E sec_id \in SectionIds : get_outline_one(uid, sec_id)
        \/ \E sec_id \in SectionIds, data \in UpdateBodies :
              update_outline(uid, sec_id, data)
        \/ \E sec_id \in SectionIds : delete_outline(uid, sec_id)

(***************************************************************************)
(* Planning: Phase and Task rows, the brainstorm hook, the dashboard       *)
(***************************************************************************)
\* dashboard/views.py desired_order
desired_order ==
    << "Define Topic & Question", "Literature Review", "Identify Gaps",
       "Plan Methodology", "Write & Revise" >>

\* warning_threshold = timedelta(days=7)
WarningDays == 7
warning_threshold == WarningDays * TicksPerDay

\* a Phase without a deadline (deadline is None)
NoDeadline == -1

\* the deadline taken at the first tick of its day
deadline_dt_StartOfDay(deadline) == deadline * TicksPerDay

\* datetime.combine(deadline, datetime.max.time()): the last tick of the day
deadline_dt(deadline) == deadline * TicksPerDay + (TicksPerDay - 1)

BrainstormTask == "Brainstorm Complete"

\* Phase.tasks: the Task rows whose phase_id is this Phase's id
PhaseTasks(tk, phase) == {t \in tk : t.phase_id = phase.id}

\* the status with "all(t.completed for t in tasks)" alone, true of no tasks
PhaseStatus_VacuousAll(phase, tk, t_now) ==
    LET ts == PhaseTasks(tk, phase)
    IN IF \A t \in ts : t.completed
       THEN "Completed"
       ELSE "NotCompleted"

\* the status branch of fetch_planning for an owned Phase
PhaseStatus(phase, tk, t_now) ==
    LET ts == PhaseTasks(tk, phase)
    IN IF ts # {} /\ \A t \in ts : t.completed
       THEN "Completed"
       ELSE IF phase.deadline # NoDeadline
            THEN IF deadline_dt(phase.deadline) < t_now
                 THEN "Not Completed (Overdue)"
                 ELSE IF deadline_dt(phase.deadline) - t_now <= warning_threshold
                      THEN "Not Completed (Deadline Approaching)"
                      ELSE "NotCompleted"
            ELSE "NotCompleted"

\* user_phase_map = {p.title: p for p in user_phases}: of the caller's
\* Phases with one title the last in primary-key order stays in the map
user_phase_map(ph, uid, title) ==
    LET same == {p \in ph : p.user_id = uid /\ p.title = title}
    IN {p \in same : \A q \in same : q.id <= p.id}

\* the list with one record per owned Phase, under its primary key
FetchPlanning_OwnedOnly(ph, tk, uid, t_now) ==
    LET owned == SortByOrder({[id |-> p.id, order |-> p.id, title |-> p.title,
                               status |-> PhaseStatus(p, tk, t_now)] :
                              p \in {q \in ph : q.user_id = uid}})
    IN [i \in 1..Len(owned) |->
           [id |-> owned[i].id, title |-> owned[i].title, status |-> owned[i].status]]

\* GET /dashboard/phases: the list "data"
FetchPlanning(ph, tk, uid, t_now) ==
    [index \in 1..Len(desired_order) |->
        LET title == desired_order[index]
            found == user_phase_map(ph, uid, title)
        IN IF found # {}
           THEN LET phase == CHOOSE p \in found : TRUE
                IN [id |-> index, title |-> phase.title,
                    status |-> PhaseStatus(phase, tk, t_now)]
           ELSE [id |-> index, title |-> title, status |-> "NotCompleted"]]

\* brain holds the BrainEntry rows as [id, user_id]; the text columns are
\* read by no handler modelled here

\* the five W fields of a brainstorm entry
FiveW == {"why", "what", "where", "when", "who"}

\* the sets of non-empty W fields a save body carries
FiveWInputs == {FiveW, FiveW \ {"who"}}

\* Phase.query.filter_by(title='Define Topic & Question').first(): the
\* first row of that title in primary-key order, of any owner
FirstDefinePhase(ph) ==
    LET same == {p \in ph : p.title = desired_order[1]}
    IN {p \in same : \A q \in same : p.id <= q.id}

\* the hook without the test for a Task of that description
BrainstormHook_NoDuplicateTest(ph, tk, uid, filled) ==
    IF filled = FiveW
    THEN LET found == FirstDefinePhase(ph)
         IN IF found # {}
            THEN tk \cup {[id |-> MaxOf({t.id : t \in tk}) + 1,
                           phase_id |-> (CHOOSE p \in found : TRUE).id,
                           user_id |-> uid,
                           description |-> BrainstormTask,
                           completed |-> TRUE]}
            ELSE tk
    ELSE tk

\* POST /brainstorm/save: the Task rows after the completion hook
BrainstormHook(ph, tk, uid, filled) ==
    IF filled = FiveW
    THEN LET found == FirstDefinePhase(ph)
         IN IF found # {} /\ ~\E t \in PhaseTasks(tk, CHOOSE p \in found : TRUE) :
                                   t.description = BrainstormTask
            THEN tk \cup {[id |-> MaxOf({t.id : t \in tk}) + 1,
                           phase_id |-> (CHOOSE p \in found : TRUE).id,
                           user_id |-> uid,
                           description |-> BrainstormTask,
                           completed |-> TRUE]}
            ELSE tk
    ELSE tk

RECURSIVE AddTasks(_, _, _, _, _)
\* the Task rows of one Phase descriptor, in payload order
AddTasks(descs, j, uid, phase_id, tk) ==
    IF j > Len(descs) THEN tk
    ELSE AddTasks(descs, j + 1, uid, phase_id,
                  tk \cup {[id |-> MaxOf({t.id : t \in tk}) + 1,
                            phase_id |-> phase_id,
                            user_id |-> uid,
                            description |-> descs[j].description,
                            completed |-> descs[j].completed]})

RECURSIVE AddPhases(_, _, _, _)
\* the Phase and Task rows of a timeline, in payload order; st = [ph, tk]
AddPhases(timeline, i, uid, st) ==
    IF i > Len(timeline) THEN st
    ELSE LET phase == [id |-> MaxOf({p.id : p \in st.ph}) + 1,
                       title |-> timeline[i].title,
                       user_id |-> uid,
                       deadline |-> timeline[i].deadline]
         IN AddPhases(timeline, i + 1, uid,
                      [ph |-> st.ph \cup {phase},
                       tk |-> AddTasks(timeline[i].tasks, 1, uid, phase.id, st.tk)])

\* POST /planning/: the caller's Phases (with their Tasks) and Sections are
\* deleted and both are recreated from the payload in one transaction
SavePlanningResult(sec, ph, tk, uid, secs, timeline) ==
    LET mine    == {p.id : p \in {q \in ph : q.user_id = uid}}
        ph0     == {p \in ph : p.user_id # uid}
        tk0     == {t \in tk : t.phase_id \notin mine}
        st      == _recreate_sections(secs, uid, {s \in sec : s.user_id # uid})
        pt      == AddPhases(timeline, 1, uid, [ph |-> ph0, tk |-> tk0])
    IN IF st.ok THEN [sec |-> st.db, ph |-> pt.ph, tk |-> pt.tk, status |-> 200]
       ELSE [sec |-> sec, ph |-> ph, tk |-> tk, status |-> 500]

TaskDesc(c) == [description |-> "t", completed |-> c]
PhaseDesc(title, deadline, ts) == [title |-> title, deadline |-> deadline, tasks |-> ts]

Done == <<TaskDesc(TRUE)>>
Mixed == <<TaskDesc(TRUE), TaskDesc(FALSE)>>

\* 'Define Topic & Question' descriptors of the timeline payloads: without
\* a deadline, due on day 0 and due one week later; without Tasks, with
\* all Tasks completed and with an incomplete Task
DefineDescs ==
    { PhaseDesc(desired_order[1], NoDeadline, <<>>),
      PhaseDesc(desired_order[1], NoDeadline, Done),
      PhaseDesc(desired_order[1], NoDeadline, Mixed),
      PhaseDesc(desired_order[1], 0, Done),
      PhaseDesc(desired_order[1], 0, Mixed),
      PhaseDesc(desired_order[1], WarningDays, Mixed) }

\* timeline payloads: none, one 'Define Topic & Question' Phase, a Phase
\* of a non-canonical title, two Phases against the canonical order, and
\* two Phases of one title
Timelines ==
    {<<>>}
    \cup { <<d>> : d \in DefineDescs }
    \cup { <<PhaseDesc("Other", NoDeadline, Done)>>,
           <<PhaseDesc(desired_order[2], NoDeadline, <<TaskDesc(FALSE)>>),
             PhaseDesc(desired_order[1], 0, Done)>>,
           <<PhaseDesc(desired_order[1], NoDeadline, Done),
             PhaseDesc(desired_order[1], NoDeadline, <<TaskDesc(FALSE)>>)>> }

\* sections payloads of the planning save
PlanSections == {<<>>}

save_planning(uid, secs, timeline) ==
    /\ \E r \in {SavePlanningResult(sections, phases, tasks, uid, secs, timeline)} :
          /\ \A s \in r.sec : s.id <= MaxSecId
          /\ \A p \in r.ph : p.id <= MaxPhaseId
          /\ \A t \in r.tk : t.id <= MaxTaskId
          /\ sections' = r.sec
          /\ phases' = r.ph
          /\ tasks' = r.tk
          /\ last' = Request("save_planning", uid, NoBody, NoUpdate, 0, r.status, NoData, {})
    /\ UNCHANGED <<mailing, library, saving, accounts, brain, now>>

save_brainstorm_session(uid, filled) ==
    /\ \E tk \in {BrainstormHook(phases, tasks, uid, filled)} :
          /\ \A t \in tk : t.id <= MaxTaskId
          /\ tasks' = tk
    /\ brain' = brain \cup {[id |-> MaxOf({e.id : e \in brain}) + 1, user_id |-> uid]}
    /\ last' = BrainRequest("save_brainstorm", uid, filled, 201)
    /\ UNCHANGED <<mailing, library, saving, accounts, sections, phases, now>>

fetch_planning(uid) ==
    /\ last' = Request("fetch_planning", uid, NoBody, NoUpdate, 0, 200,
                       FetchPlanning(phases, tasks, uid, now), {})
    /\ UNCHANGED <<mailing, library, saving, accounts, sections, phases, tasks, brain, now>>

(***************************************************************************)
(* Planning read, task toggle and phase delete                             *)
(***************************************************************************)
RECURSIVE SortById(_)
\* rows in primary-key order
SortById(S) ==
    IF S = {} THEN <<>>
    ELSE LET f == CHOOSE x \in S : \A y \in S : x.id <= y.id
         IN <<f>> \o SortById(S \ {f})

\* one timeline record of the planning read: the Phase with its Tasks and
\* the two counts
PhaseRecord(tk, phase) ==
    LET ts == SortById(PhaseTasks(tk, phase))
    IN [id |-> phase.id, title |-> phase.title, deadline |-> phase.deadline,
        tasks |-> [j \in 1..Len(ts) |->
                      [id |-> ts[j].id, description |-> ts[j].description,
                       completed |-> ts[j].completed]],
        total_tasks |-> Len(ts),
        completed_tasks |-> Cardinality({t \in PhaseTasks(tk, phase) : t.completed})]

\* GET /planning/: the caller's root Sections with their subtrees and the
\* caller's Phases
GetPlanning(sec, ph, tk, uid) ==
    LET mine == SortById({p \in ph : p.user_id = uid})
    IN [sections |-> GetOutlineAll(sec, uid),
        timeline |-> [i \in 1..Len(mine) |-> PhaseRecord(tk, mine[i])]]

\* the toggle that marks the Task completed whatever it was
TaskToggleResult_SetCompleted(tk, uid, phase_id, task_id) ==
    LET found == {t \in tk : t.id = task_id /\ t.phase_id = phase_id /\ t.user_id = uid}
    IN IF found = {} THEN [tk |-> tk, status |-> 404, data |-> NoData]
       ELSE LET t == CHOOSE x \in found : TRUE
            IN [tk |-> (tk \ {t}) \cup {[t EXCEPT !.completed = TRUE]},
                status |-> 200, data |-> <<[completed |-> TRUE]>>]

\* the toggle without the owner test
TaskToggleResult_AnyOwner(tk, uid, phase_id, task_id) ==
    LET found == {t \in tk : t.id = task_id /\ t.phase_id = phase_id}
    IN IF found = {} THEN [tk |-> tk, status |-> 404, data |-> NoData]
       ELSE LET t == CHOOSE x \in found : TRUE
            IN [tk |-> (tk \ {t}) \cup {[t EXCEPT !.completed = ~t.completed]},
                status |-> 200, data |-> <<[completed |-> ~t.completed]>>]

\* PATCH /planning/<phase_id>/tasks/<task_id>: the Task of that id, of that
\* Phase and of the caller has its completed flag flipped and the new value
\* is returned; any mismatch is not-found
TaskToggleResult(tk, uid, phase_id, task_id) ==
    LET found == {t \in tk : t.id = task_id /\ t.phase_id = phase_id /\ t.user_id = uid}
    IN IF found = {} THEN [tk |-> tk, status |-> 404, data |-> NoData]
       ELSE LET t == CHOOSE x \in found : TRUE
            IN [tk |-> (tk \ {t}) \cup {[t EXCEPT !.completed = ~t.completed]},
                status |-> 200, data |-> <<[completed |-> ~t.completed]>>]

\* the delete that removes the Phase row alone
DeletePhaseResult_NoCascade(ph, tk, uid, phase_id) ==
    LET found == {p \in ph : p.id = phase_id /\ p.user_id = uid}
    IN IF found = {} THEN [ph |-> ph, tk |-> tk, status |-> 404, removed |-> {}]
       ELSE [ph |-> ph \ found, tk |-> tk, status |-> 200, removed |-> {}]

\* DELETE /planning/<phase_id>: the caller's Phase of that id is deleted
\* and the delete cascades to its Tasks; a missing or foreign Phase is
\* not-found
DeletePhaseResult(ph, tk, uid, phase_id) ==
    LET found == {p \in ph : p.id = phase_id /\ p.user_id = uid}
        gone  == {t \in tk : t.phase_id = phase_id}
    IN IF found = {} THEN [ph |-> ph, tk |-> tk, status |-> 404, removed |-> {}]
       ELSE [ph |-> ph \ found, tk |-> tk \ gone, status |-> 200,
             removed |-> {t.id : t \in gone}]

get_planning(uid) ==
    /\ last' = Request("get_planning", uid, NoBody, NoUpdate, 0, 200,
                       <<GetPlanning(sections, phases, tasks, uid)>>, {})
    /\ UNCHANGED <<mailing, library, saving, accounts, sections, phases, tasks, brain, now>>

toggle_task(uid, phase_id, task_id) ==
    /\ \E r \in {TaskToggleResult(tasks, uid, phase_id, task_id)} :
          /\ tasks' = r.tk
          /\ last' = PlanningRequest("toggle_task", uid, phase_id, task_id,
                                     r.status, r.data, {})
    /\ UNCHANGED <<mailing, library, saving, accounts, sections, phases, brain, now>>

delete_phase(uid, phase_id) ==
    /\ \E r \in {DeletePhaseResult(phases, tasks, uid, phase_id)} :
          /\ phases' = r.ph
          /\ tasks' = r.tk
          /\ last' = PlanningRequest("delete_phase", uid, phase_id, 0,
                                     r.status, NoData, r.removed)
    /\ UNCHANGED <<mailing, library, saving, accounts, sections, brain, now>>

\* the wall clock advances
Tick ==
    /\ now < MaxNow
    /\ now' = now + 1
    /\ UNCHANGED <<mailing, library, saving, accounts, sections, phases, tasks, brain, last>>

NextPlan ==
    \/ Tick
    \/ \E uid \in Users :
        \/ \E secs \in PlanSections, timeline \in Timelines :
              save_planning(uid, secs, timeline)
        \/ \E filled \in FiveWInputs :
              Cardinality(brain) < MaxBrain /\ save_brainstorm_session(uid, filled)
        \/ fetch_planning(uid)

\* timeline payloads of the dashboard runs: those above and a Phase
\* without Tasks that is due on day 0
DashTimelines ==
    Timelines \cup { <<PhaseDesc(desired_order[1], 0, <<>>)>> }

NextDash ==
    \/ Tick
    \/ \E uid \in Users :
        \/ \E secs \in PlanSections, timeline \in DashTimelines :
              save_planning(uid, secs, timeline)
        \/ fetch_planning(uid)

\* payloads of the planning replace runs: no Section and one root; no
\* Phase, a 'Define Topic & Question' Phase with an incomplete Task, a
\* Phase with a completed and an incomplete Task, and two Phases of which
\* the second has a Task
Leaf == [title |-> "a", summary |-> None, subsections |-> <<>>]
ReplaceSections == {<<>>, <<Leaf>>}
ReplaceTimelines ==
    { <<>>,
      <<PhaseDesc(desired_order[1], NoDeadline, <<TaskDesc(FALSE)>>)>>,
      <<PhaseDesc("Other", NoDeadline, Mixed)>>,
      <<PhaseDesc(desired_order[1], NoDeadline, <<>>),
        PhaseDesc("Other", NoDeadline, <<TaskDesc(FALSE)>>)>> }

NextReplace ==
    \E uid \in Users :
        \/ \E secs \in ReplaceSections, timeline \in ReplaceTimelines :
              save_planning(uid, secs, timeline)
        \/ get_planning(uid)
        \/ \E filled \in FiveWInputs :
              Cardinality(brain) < MaxBrain /\ save_brainstorm_session(uid, filled)

\* ids of the planning URLs
PhaseIds == 1..MaxPhaseId
TaskIds == 1..MaxTaskId

\* timeline payloads of the task runs: a 'Define Topic & Question' Phase
\* with an incomplete Task, alone and followed by a second Phase with an
\* incomplete Task
TwoPhases ==
    <<PhaseDesc(desired_order[1], NoDeadline, <<TaskDesc(FALSE)>>),
      PhaseDesc("Other", NoDeadline, <<TaskDesc(FALSE)>>)>>
TaskTimelines ==
    { <<PhaseDesc(desired_order[1], NoDeadline, <<TaskDesc(FALSE)>>)>>, TwoPhases }

NextTasks ==
    \E uid \in Users :
        \/ \E secs \in PlanSections, timeline \in TaskTimelines :
              save_planning(uid, secs, timeline)
        \/ get_planning(uid)
        \/ \E phase_id \in PhaseIds, task_id \in TaskIds :
              toggle_task(uid, phase_id, task_id)
        \/ \E filled \in FiveWInputs :
              Cardinality(brain) < MaxBrain /\ save_brainstorm_session(uid, filled)

\* the cascade runs: toggles name a stored Task by its own ids (ids that
\* name nothing are the subject of the task runs above)
NextCascade ==
    \E uid \in Users :
        \/ save_planning(uid, <<Leaf>>, TwoPhases)
        \/ \E t \in tasks : toggle_task(uid, t.phase_id, t.id)
        \/ \E phase_id \in PhaseIds : delete_phase(uid, phase_id)
        \/ \E filled \in FiveWInputs :
              Cardinality(brain) < MaxBrain /\ save_brainstorm_session(uid, filled)

\* brainstorm saves of the brainstorm runs
MaxBrainSaves == MaxBrain + 1

NextBrain ==
    \E uid \in Users :
        \/ \E secs \in PlanSections, timeline \in ReplaceTimelines :
              save_planning(uid, secs, timeline)
        \/ \E filled \in FiveWInputs :
              Cardinality(brain) < MaxBrainSaves /\ save_brainstorm_session(uid, filled)

(***************************************************************************)
(* Accounts: register and login.  User rows are [id, username, email,      *)
(* password], the password column holding the hash.                        *)
(***************************************************************************)
\* a request to /users/register or /users/login
AuthRequest(op, cred, status, data) ==
    [Request(op, 0, NoBody, NoUpdate, 0, status, data, {}) EXCEPT !.cred = cred]

\* the password setter of User: the stored value is a hash of the password
Hash(password) == <<"hash", password>>

\* User.check_password
check_password(user, password) == user.password = Hash(password)

\* the rows a query of the open session sees: the committed rows and the
\* rows it has flushed
Visible(committed, flushed) == committed \cup flushed

\* POST /users/register: the session's flushed rows and the response
RegisterResult(committed, flushed, data) ==
    LET seen == Visible(committed, flushed)
    IN IF data.username = None \/ data.email = None \/ data.password = None
       THEN [flushed |-> flushed, status |-> 400, msg |-> "Missing fields"]
       ELSE IF \E u \in seen : u.username = data.username
       THEN [flushed |-> flushed, status |-> 400, msg |-> "Username already exists"]
       ELSE IF \E u \in seen : u.email = data.email
       THEN [flushed |-> flushed, status |-> 400, msg |-> "Email already exists"]
       ELSE [flushed |-> flushed \cup {[id |-> MaxOf({u.id : u \in seen}) + 1,
                                        username |-> data.username,
                                        email |-> data.email,
                                        password |-> Hash(data.password)]},
             status |-> 200, msg |-> "Registration successful"]

\* POST /users/login: the response
LoginResult(committed, flushed, data) ==
    LET found == {u \in Visible(committed, flushed) : u.username = data.username}
    IN IF found # {} /\ check_password(CHOOSE u \in found : TRUE, data.password)
       THEN [status |-> 200,
             data |-> <<[access_token |-> (CHOOSE u \in found : TRUE).id]>>]
       ELSE [status |-> 401, data |-> <<[msg |-> "Invalid username or password"]>>]

Usernames == {"u1", "u2"}
Emails == {"e1", "e2"}
Passwords == {"p", "q"}

\* register bodies: each key present or missing
RegisterBodies ==
    [username : Usernames \cup {None}, email : Emails \cup {None},
     password : Passwords \cup {None}]

\* login bodies
LoginBodies == [username : Usernames, email : {None}, password : Passwords]

\* register ends after db.session.flush(): the row is in the session's
\* transaction, not committed
register(data) ==
    /\ \E r \in {RegisterResult(users, pending, data)} :
          /\ pending' = r.flushed
          /\ accepted' = IF r.status = 200 THEN accepted \cup {data} ELSE accepted
          /\ last' = AuthRequest("register", data, r.status, <<[msg |-> r.msg]>>)
    /\ UNCHANGED <<mailing, library, saving, users, sections, phases, tasks, brain, now>>

login(data) ==
    /\ \E r \in {LoginResult(users, pending, data)} :
          last' = AuthRequest("login", data, r.status, r.data)
    /\ UNCHANGED <<mailing, library, saving, accounts, sections, phases, tasks, brain, now>>

\* the application context of a request is popped: the session is removed
\* and its open transaction is rolled back.  A server pops the context
\* when the request ends; the test fixtures hold one context open over
\* several requests.
shutdown_session ==
    /\ pending # {}
    /\ pending' = {}
    /\ UNCHANGED <<mailing, library, saving, users, accepted, sections, phases, tasks, brain, now,
                   last>>

NextAuth ==
    \/ \E data \in RegisterBodies : register(data)
    \/ \E data \in LoginBodies : login(data)
    \/ shutdown_session

(***************************************************************************)
(* Verification codes and password reset.  EmailCaptcha rows are           *)
(* [id, email, captcha, created_at]; the outbox is the sequence of         *)
(* messages mail.send accepted, each [recipient, code].                    *)
(***************************************************************************)
\* a request to /captcha/email/ or /password/reset/
CaptchaRequest(op, email, captcha, new_password, sent, status, message) ==
    [Request(op, 0, NoBody, NoUpdate, 0, status,
             <<[code |-> status, message |-> message]>>, {})
        EXCEPT !.cred = [username |-> None, email |-> email,
                         password |-> new_password],
               !.captcha = captcha, !.sent = sent]

\* random.choices(string.digits, k=6)
CodeLen == 6
Digits == {"0", "1"}

\* the codes drawn in the runs: CodeLen digits, the last one varying
Codes == {[i \in 1..CodeLen |-> IF i = CodeLen THEN d ELSE "0"] : d \in Digits}

\* db.session.commit(): the rows the session flushed become committed
Commit(committed, flushed) == Visible(committed, flushed)

\* the mutant: the record is stored before the mail is handed over
SendCaptchaResult_StoreFirst(rows, box, email, code, sent, t_now) ==
    IF email = None
    THEN [rows |-> rows, box |-> box, status |-> 400, commit |-> FALSE,
          message |-> "Email is required"]
    ELSE LET cap == [id |-> MaxOf({c.id : c \in rows}) + 1, email |-> email,
                     captcha |-> code, created_at |-> t_now]
         IN IF ~sent
            THEN [rows |-> rows \cup {cap}, box |-> box, status |-> 500,
                  commit |-> TRUE, message |-> "Failed to send email"]
            ELSE [rows |-> rows \cup {cap},
                  box |-> Append(box, [recipient |-> email, code |-> code]),
                  status |-> 200, commit |-> TRUE,
                  message |-> "Verification code sent successfully"]

\* GET or POST /captcha/email/: the EmailCaptcha rows, the outbox, the
\* response and whether the session was committed; sent tells whether
\* mail.send returned or raised
SendCaptchaResult(rows, box, email, code, sent, t_now) ==
    IF email = None
    THEN [rows |-> rows, box |-> box, status |-> 400, commit |-> FALSE,
          message |-> "Email is required"]
    ELSE IF ~sent
    THEN [rows |-> rows, box |-> box, status |-> 500, commit |-> FALSE,
          message |-> "Failed to send email"]
    ELSE [rows |-> rows \cup {[id |-> MaxOf({c.id : c \in rows}) + 1,
                               email |-> email, captcha |-> code,
                               created_at |-> t_now]},
          box |-> Append(box, [recipient |-> email, code |-> code]),
          status |-> 200, commit |-> TRUE,
          message |-> "Verification code sent successfully"]

\* the row of lowest primary key, what .first() returns without ORDER BY
FirstById(S) == CHOOSE x \in S : \A y \in S : x.id <= y.id

\* the mutant: the captcha record is looked up by email alone
ResetPasswordResult_EmailOnly(committed, flushed, rows, data) ==
    IF data.email = None \/ data.captcha = NoCode \/ data.new_password = None
    THEN [committed |-> committed, flushed |-> flushed, status |-> 400,
          message |-> "Email, captcha, and new_password are all required"]
    ELSE IF ~\E c \in rows : c.email = data.email
    THEN [committed |-> committed, flushed |-> flushed, status |-> 400,
          message |-> "Invalid or expired captcha"]
    ELSE LET found == {u \in Visible(committed, flushed) : u.email = data.email}
         IN IF found = {}
            THEN [committed |-> committed, flushed |-> flushed, status |-> 404,
                  message |-> "Email not registered"]
            ELSE LET user == FirstById(found)
                 IN [committed |->
                        (Commit(committed, flushed) \ {user}) \cup
                        {[user EXCEPT !.password = Hash(data.new_password)]},
                     flushed |-> {}, status |-> 200,
                     message |-> "Password reset successfully"]

\* POST /password/reset/: the committed and the flushed User rows and the
\* response
ResetPasswordResult(committed, flushed, rows, data) ==
    IF data.email = None \/ data.captcha = NoCode \/ data.new_password = None
    THEN [committed |-> committed, flushed |-> flushed, status |-> 400,
          message |-> "Email, captcha, and new_password are all required"]
    ELSE IF ~\E c \in rows : c.email = data.email /\ c.captcha = data.captcha
    THEN [committed |-> committed, flushed |-> flushed, status |-> 400,
          message |-> "Invalid or expired captcha"]
    ELSE LET found == {u \in Visible(committed, flushed) : u.email = data.email}
         IN IF found = {}
            THEN [committed |-> committed, flushed |-> flushed, status |-> 404,
                  message |-> "Email not registered"]
            ELSE LET user == FirstById(found)
                 IN [committed |->
                        (Commit(committed, flushed) \ {user}) \cup
                        {[user EXCEPT !.password = Hash(data.new_password)]},
                     flushed |-> {}, status |-> 200,
                     message |-> "Password reset successfully"]

\* the number of EmailCaptcha rows the runs store
MaxCaptchas == 2

\* reset bodies: each key present or missing
ResetBodies ==
    [email : Emails \cup {None}, captcha : Codes \cup {NoCode},
     new_password : {"q", None}]

\* the registrations of the captcha runs: one per email
ResetRegisterBodies ==
    {[username |-> "u1", email |-> "e1", password |-> "p"],
     [username |-> "u2", email |-> "e2", password |-> "p"]}

send_email_captcha(email, code, sent) ==
    /\ \E r \in {SendCaptchaResult(captchas, outbox, email, code, sent, now)} :
          /\ captchas' = r.rows
          /\ outbox' = r.box
          /\ users' = IF r.commit THEN Commit(users, pending) ELSE users
          /\ pending' = IF r.commit THEN {} ELSE pending
          /\ last' = CaptchaRequest("send_email_captcha", email, code, None, sent,
                                    r.status, r.message)
    /\ UNCHANGED <<library, saving, accepted, sections, phases, tasks, brain, now>>

reset_password(data) ==
    /\ \E r \in {ResetPasswordResult(users, pending, captchas, data)} :
          /\ users' = r.committed
          /\ pending' = r.flushed
          /\ last' = CaptchaRequest("reset_password", data.email, data.captcha,
                                    data.new_password, FALSE, r.status, r.message)
    /\ UNCHANGED <<mailing, library, saving, accepted, sections, phases, tasks, brain,
                   now>>

NextCaptcha ==
    \/ \E data \in ResetRegisterBodies : register(data)
    \/ \E email \in Emails \cup {None}, code \in Codes, sent \in BOOLEAN :
          Cardinality(captchas) < MaxCaptchas /\ send_email_captcha(email, code, sent)
    \/ \E data \in ResetBodies : reset_password(data)
    \/ shutdown_session

\* the runs in which time passes between the mail and the reset: one
\* account, complete reset bodies
ExpiryBodies == [email : {"e1"}, captcha : Codes, new_password : {"q"}]

NextExpiry ==
    \/ register([username |-> "u1", email |-> "e1", password |-> "p"])
    \/ \E code \in Codes, sent \in BOOLEAN :
          Cardinality(captchas) < MaxCaptchas /\ send_email_captcha("e1", code, sent)
    \/ \E data \in ExpiryBodies : reset_password(data)
    \/ shutdown_session
    \/ Tick

(***************************************************************************)
(* Tags.  Reference rows (the documents) are [id, user_id], Tag rows       *)
(* [id, name, user_id], document_tags rows [document_id, tag_id, copy]:    *)
(* no request reads the surrogate key of a document_tags row, so rows of   *)
(* the same document and tag are told apart by a copy number instead.      *)
(* A name is a sequence of characters.  Tag.name carries a UNIQUE          *)
(* constraint over the whole table: an INSERT or UPDATE that would store   *)
(* a name twice raises IntegrityError, the request is answered 500 and     *)
(* its transaction is rolled back.                                         *)
(***************************************************************************)
\* a request to /tags/... or /references/
TagRequest(op, uid, document_id, tag_id, name, status, data) ==
    [Request(op, uid, NoBody, NoUpdate, 0, status, data, {})
        EXCEPT !.document_id = document_id, !.tag_id = tag_id, !.name = name]

RECURSIVE lstrip(_)
lstrip(str) ==
    IF str # <<>> /\ Head(str) = " " THEN lstrip(Tail(str)) ELSE str

RECURSIVE rstrip(_)
rstrip(str) ==
    IF str # <<>> /\ str[Len(str)] = " "
    THEN rstrip(SubSeq(str, 1, Len(str) - 1)) ELSE str

\* str.strip()
strip(str) == rstrip(lstrip(str))

\* Tag.query.filter_by(name=name, user_id=user_id)
UserTag(tg, uid, name) == {t \in tg : t.name = name /\ t.user_id = uid}

\* the UNIQUE constraint of Tag.name rejects storing name in a row other
\* than the one of primary key id
NameTaken(tg, name, id) == \E t \in tg : t.name = name /\ t.id # id

\* POST /references/: a document of the caller
AddReferenceResult(docs, uid) ==
    docs \cup {[id |-> MaxOf({d.id : d \in docs}) + 1, user_id |-> uid]}

\* POST /tags/: the Tag rows and the response
AddTagResult(tg, uid, raw) ==
    LET name == strip(raw)
        found == UserTag(tg, uid, name)
    IN IF name = <<>>
       THEN [tags |-> tg, status |-> 400, data |-> <<[error |-> "Tag name required"]>>]
       ELSE IF found # {}
       THEN [tags |-> tg, status |-> 200,
             data |-> <<[id |-> FirstById(found).id, name |-> name]>>]
       ELSE IF NameTaken(tg, name, 0)
       THEN [tags |-> tg, status |-> 500, data |-> NoData]
       ELSE LET id == MaxOf({t.id : t \in tg}) + 1
            IN [tags |-> tg \cup {[id |-> id, name |-> name, user_id |-> uid]},
                status |-> 200, data |-> <<[id |-> id, name |-> name]>>]

\* GET /tags/list
ListTags(tg, uid) ==
    LET own == SortById({t \in tg : t.user_id = uid})
    IN [i \in 1..Len(own) |-> [id |-> own[i].id, name |-> own[i].name]]

\* Document.query.filter_by(id=doc_id, user_id=user_id)
UserDocument(docs, uid, doc_id) == {d \in docs : d.id = doc_id /\ d.user_id = uid}

\* tag in document.tags
Assigned(rows, doc_id, tag_id) ==
    \E r \in rows : r.document_id = doc_id /\ r.tag_id = tag_id

\* document.tags.append(tag): one more document_tags row
NewRow(rows, doc_id, tag_id) ==
    [document_id |-> doc_id, tag_id |-> tag_id,
     copy |-> Cardinality({r \in rows : r.document_id = doc_id
                                           /\ r.tag_id = tag_id}) + 1]

\* the mutant: the tag is appended without the membership test
AssignTagResult_NoMembershipTest(docs, tg, rows, uid, doc_id, raw) ==
    LET tag_name == strip(raw)
        found == UserTag(tg, uid, tag_name)
        tag_id == IF found # {} THEN FirstById(found).id
                  ELSE MaxOf({t.id : t \in tg}) + 1
        tg2 == IF found # {} THEN tg
               ELSE tg \cup {[id |-> tag_id, name |-> tag_name, user_id |-> uid]}
    IN IF doc_id = 0 \/ tag_name = <<>>
       THEN [tags |-> tg, rows |-> rows, status |-> 400,
             data |-> <<[error |-> "Missing document_id or tag"]>>]
       ELSE IF UserDocument(docs, uid, doc_id) = {}
       THEN [tags |-> tg, rows |-> rows, status |-> 404,
             data |-> <<[error |-> "Document not found or no permission"]>>]
       ELSE IF found = {} /\ NameTaken(tg, tag_name, 0)
       THEN [tags |-> tg, rows |-> rows, status |-> 500, data |-> NoData]
       ELSE [tags |-> tg2,
             rows |-> rows \cup {NewRow(rows, doc_id, tag_id)},
             status |-> 200,
             data |-> <<[msg |-> "assigned", tag |-> tag_name, document |-> doc_id]>>]

\* POST /tags/assign: the Tag rows, the document_tags rows and the response
AssignTagResult(docs, tg, rows, uid, doc_id, raw) ==
    LET tag_name == strip(raw)
        found == UserTag(tg, uid, tag_name)
        tag_id == IF found # {} THEN FirstById(found).id
                  ELSE MaxOf({t.id : t \in tg}) + 1
        tg2 == IF found # {} THEN tg
               ELSE tg \cup {[id |-> tag_id, name |-> tag_name, user_id |-> uid]}
    IN IF doc_id = 0 \/ tag_name = <<>>
       THEN [tags |-> tg, rows |-> rows, status |-> 400,
             data |-> <<[error |-> "Missing document_id or tag"]>>]
       ELSE IF UserDocument(docs, uid, doc_id) = {}
       THEN [tags |-> tg, rows |-> rows, status |-> 404,
             data |-> <<[error |-> "Document not found or no permission"]>>]
       ELSE IF found = {} /\ NameTaken(tg, tag_name, 0)
       THEN [tags |-> tg, rows |-> rows, status |-> 500, data |-> NoData]
       ELSE [tags |-> tg2,
             rows |-> IF Assigned(rows, doc_id, tag_id) THEN rows
                      ELSE rows \cup {NewRow(rows, doc_id, tag_id)},
             status |-> 200,
             data |-> <<[msg |-> "assigned", tag |-> tag_name, document |-> doc_id]>>]

\* Tag.query.filter_by(id=tag_id, user_id=user_id)
UserTagById(tg, uid, tag_id) == {t \in tg : t.id = tag_id /\ t.user_id = uid}

\* DELETE /tags/remove: the document_tags rows and the response
RemoveTagResult(docs, tg, rows, uid, doc_id, tag_id) ==
    IF UserDocument(docs, uid, doc_id) = {} \/ UserTagById(tg, uid, tag_id) = {}
    THEN [rows |-> rows, status |-> 404,
          data |-> <<[error |-> "Unauthorized or not found"]>>]
    ELSE IF Assigned(rows, doc_id, tag_id)
    THEN [rows |-> {r \in rows : ~(r.document_id = doc_id /\ r.tag_id = tag_id)},
          status |-> 200,
          data |-> <<[msg |-> "removed", tag |-> tag_id, document |-> doc_id]>>]
    ELSE [rows |-> rows, status |-> 400,
          data |-> <<[error |-> "Tag was not assigned to the document"]>>]

\* PUT /tags/update: the Tag rows and the response
UpdateTagNameResult(tg, uid, tag_id, raw) ==
    LET new_name == strip(raw)
        found == UserTagById(tg, uid, tag_id)
    IN IF tag_id = 0 \/ new_name = <<>>
       THEN [tags |-> tg, status |-> 400,
             data |-> <<[error |-> "Tag ID and new name required"]>>]
       ELSE IF found = {}
       THEN [tags |-> tg, status |-> 404,
             data |-> <<[error |-> "Tag not found or no permission"]>>]
       ELSE IF NameTaken(tg, new_name, tag_id)
       THEN [tags |-> tg, status |-> 500, data |-> NoData]
       ELSE [tags |-> {IF t.id = tag_id THEN [t EXCEPT !.name = new_name] ELSE t :
                          t \in tg},
             status |-> 200, data |-> <<[msg |-> "renamed", name |-> new_name]>>]

\* the sequence S without its i-th element
RemoveAt(S, i) == SubSeq(S, 1, i - 1) \o SubSeq(S, i + 1, Len(S))

\* the loop over tag.documents of delete_tag: doc.tags.remove(tag) also
\* takes doc out of tag.documents, the list the loop iterates, so the
\* iteration goes on at the next index of the shortened list
RECURSIVE RemoveLoop(_, _, _, _)
RemoveLoop(docs_of_tag, i, rows, tag_id) ==
    IF i > Len(docs_of_tag) THEN rows
    ELSE RemoveLoop(RemoveAt(docs_of_tag, i), i + 1,
                    {r \in rows : ~(r.document_id = docs_of_tag[i].id
                                      /\ r.tag_id = tag_id)},
                    tag_id)

\* tag.documents: the documents the document_tags rows give the tag
TagDocuments(docs, rows, tag_id) ==
    SortById({d \in docs : Assigned(rows, d.id, tag_id)})

\* the mutant: deleting the Tag leaves the document_tags rows that the
\* loop did not remove
DeleteTagResult_LoopOnly(docs, tg, rows, uid, tag_id) ==
    LET found == UserTagById(tg, uid, tag_id)
    IN IF found = {}
       THEN [tags |-> tg, rows |-> rows, status |-> 404,
             data |-> <<[error |-> "Tag not found or no permission"]>>]
       ELSE [tags |-> tg \ found,
             rows |-> RemoveLoop(TagDocuments(docs, rows, tag_id), 1, rows, tag_id),
             status |-> 200, data |-> <<[msg |-> "deleted", tag |-> tag_id]>>]

\* DELETE /tags/delete: the loop, then db.session.delete(tag), whose flush
\* deletes the rows of the secondary table that still hold the tag
DeleteTagResult(docs, tg, rows, uid, tag_id) ==
    LET found == UserTagById(tg, uid, tag_id)
        looped == RemoveLoop(TagDocuments(docs, rows, tag_id), 1, rows, tag_id)
    IN IF found = {}
       THEN [tags |-> tg, rows |-> rows, status |-> 404,
             data |-> <<[error |-> "Tag not found or no permission"]>>]
       ELSE [tags |-> tg \ found,
             rows |-> {r \in looped : r.tag_id # tag_id},
             status |-> 200, data |-> <<[msg |-> "deleted", tag |-> tag_id]>>]

\* the number of documents the runs store; the names below bound the
\* number of tags
MaxDocs == 2

\* the highest primary key of a Tag in the runs that delete tags
MaxTagId == 3

\* the names of tag requests: two names, one of them also padded, a blank
\* name and the empty name
TagNames == {<<"x">>, <<" ", "x", " ">>, <<"y">>, <<" ">>, <<>>}

add_reference(uid) ==
    /\ Cardinality(documents) < MaxDocs
    /\ documents' = AddReferenceResult(documents, uid)
    /\ last' = TagRequest("add_reference", uid, 0, 0, <<>>, 201, NoData)
    /\ UNCHANGED <<mailing, saving, accounts, tags, document_tags, writing, sections,
                   phases, tasks, brain, now>>

add_tag(uid, raw) ==
    /\ \E r \in {AddTagResult(tags, uid, raw)} :
          /\ tags' = r.tags
          /\ last' = TagRequest("add_tag", uid, 0, 0, raw, r.status, r.data)
    /\ UNCHANGED <<mailing, saving, accounts, documents, document_tags, writing,
                   sections, phases, tasks, brain, now>>

list_tags(uid) ==
    /\ last' = TagRequest("list_tags", uid, 0, 0, <<>>, 200, ListTags(tags, uid))
    /\ UNCHANGED <<mailing, library, saving, accounts, sections, phases, tasks, brain,
                   now>>

assign_tag(uid, doc_id, raw) ==
    /\ \E r \in {AssignTagResult(documents, tags, document_tags, uid, doc_id, raw)} :
          /\ tags' = r.tags
          /\ document_tags' = r.rows
          /\ last' = TagRequest("assign_tag", uid, doc_id, 0, raw, r.status, r.data)
    /\ UNCHANGED <<mailing, saving, accounts, documents, writing, sections, phases,
                   tasks, brain, now>>

remove_tag_from_document(uid, doc_id, tag_id) ==
    /\ \E r \in {RemoveTagResult(documents, tags, document_tags, uid, doc_id, tag_id)} :
          /\ document_tags' = r.rows
          /\ last' = TagRequest("remove_tag_from_document", uid, doc_id, tag_id, <<>>,
                                r.status, r.data)
    /\ UNCHANGED <<mailing, saving, accounts, documents, tags, writing, sections,
                   phases, tasks, brain, now>>

update_tag_name(uid, tag_id, raw) ==
    /\ \E r \in {UpdateTagNameResult(tags, uid, tag_id, raw)} :
          /\ tags' = r.tags
          /\ last' = TagRequest("update_tag_name", uid, 0, tag_id, raw, r.status, r.data)
    /\ UNCHANGED <<mailing, saving, accounts, documents, document_tags, writing,
                   sections, phases, tasks, brain, now>>

delete_tag(uid, tag_id) ==
    /\ \E r \in {DeleteTagResult(documents, tags, document_tags, uid, tag_id)} :
          /\ tags' = r.tags
          /\ document_tags' = r.rows
          /\ last' = [TagRequest("delete_tag", uid, 0, tag_id, <<>>, r.status, r.data)
                         EXCEPT !.removed = {x.document_id : x \in document_tags \ r.rows}]
    /\ UNCHANGED <<mailing, saving, accounts, documents, writing, sections, phases,
                   tasks, brain, now>>

\* the names of the requests that assign or rename
ShortNames == {<<"x">>, <<"y">>, <<>>}

\* the document ids and tag ids of requests: those of stored rows, and 0
\* for a missing key
DocIds == {d.id : d \in documents} \cup {0}
TagIds == {t.id : t \in tags} \cup {0}

\* the tag runs: names are added, listed, assigned and changed
NextTag ==
    \E uid \in Users :
        \/ add_reference(uid)
        \/ \E raw \in TagNames : add_tag(uid, raw)
        \/ list_tags(uid)
        \/ \E d \in documents, raw \in ShortNames : assign_tag(uid, d.id, raw)
        \/ \E tag_id \in TagIds, raw \in ShortNames : update_tag_name(uid, tag_id, raw)

\* the assignment runs: tags are assigned to and removed from documents
NextAssign ==
    \E uid \in Users :
        \/ add_reference(uid)
        \/ \E doc_id \in DocIds, raw \in ShortNames : assign_tag(uid, doc_id, raw)
        \/ \E doc_id \in DocIds, tag_id \in TagIds :
              remove_tag_from_document(uid, doc_id, tag_id)

\* the deletion runs: tags are assigned to documents and deleted
NextDelete ==
    \E uid \in Users :
        \/ add_reference(uid)
        \/ \E d \in documents, raw \in ShortNames \ {<<>>} :
              assign_tag(uid, d.id, raw) /\ \A t \in tags' : t.id <= MaxTagId
        \/ \E tag_id \in TagIds : delete_tag(uid, tag_id)

(***************************************************************************)
(* Document versions.  CloudDocument rows are [id], DocumentVersion rows   *)
(* [document_id, major_version, minor_version].  A version is the pair     *)
(* <<major, minor>>.                                                       *)
(***************************************************************************)
\* a request to /writing_tool/documents...
VersionRequest(op, uid, document_id, has_file, version, status) ==
    [Request(op, uid, NoBody, NoUpdate, 0, status, NoData, {})
        EXCEPT !.document_id = document_id, !.has_file = has_file,
               !.version = version]

\* the pair of a DocumentVersion row
VersionOf(v) == <<v.major_version, v.minor_version>>

\* lexicographic order of versions
VersionLess(a, b) == a[1] < b[1] \/ (a[1] = b[1] /\ a[2] < b[2])

\* the versions of a document
DocumentVersions(vs, doc_id) == {VersionOf(v) : v \in {w \in vs : w.document_id = doc_id}}

\* the latest version of a document that has one
LatestVersion(vs, doc_id) ==
    CHOOSE a \in DocumentVersions(vs, doc_id) :
        \A b \in DocumentVersions(vs, doc_id) : a = b \/ VersionLess(b, a)

\* the minor version at which the next upload starts a new major version
MinorLimit == 9

\* the mutant: the minor version grows without a rollover
NextVersionOf_NoRollover(vs, doc_id) ==
    IF DocumentVersions(vs, doc_id) = {} THEN <<1, 0>>
    ELSE LET latest == LatestVersion(vs, doc_id)
         IN <<latest[1], latest[2] + 1>>

\* the version a new upload gets
NextVersionOf(vs, doc_id) ==
    IF DocumentVersions(vs, doc_id) = {} THEN <<1, 0>>
    ELSE LET latest == LatestVersion(vs, doc_id)
         IN IF latest[2] < MinorLimit THEN <<latest[1], latest[2] + 1>>
            ELSE <<latest[1] + 1, 0>>

VersionRow(doc_id, version) ==
    [document_id |-> doc_id, major_version |-> version[1], minor_version |-> version[2]]

\* POST /writing_tool/documents/<doc_id>/versions: the DocumentVersion rows
\* and the response
UploadNewVersionResult(cdocs, vs, doc_id, has_file) ==
    IF ~has_file THEN [versions |-> vs, status |-> 400, version |-> <<0, 0>>]
    ELSE IF ~\E d \in cdocs : d.id = doc_id
    THEN [versions |-> vs, status |-> 404, version |-> <<0, 0>>]
    ELSE LET version == NextVersionOf(vs, doc_id)
         IN [versions |-> vs \cup {VersionRow(doc_id, version)}, status |-> 200,
             version |-> version]

\* the number of cloud documents of the runs, and the minor version of
\* major version 2 that is the highest version they store
MaxCloudDocs == 2
MaxRolled == 0

CloudDocIds == 1..(MaxCloudDocs + 1)

\* POST /writing_tool/documents: a document with its first version
create_document(uid) ==
    /\ Cardinality(cloud_documents) < MaxCloudDocs
    /\ \E id \in {MaxOf({d.id : d \in cloud_documents}) + 1} :
          /\ cloud_documents' = cloud_documents \cup {[id |-> id]}
          /\ versions' = versions \cup {VersionRow(id, <<1, 0>>)}
          /\ last' = VersionRequest("create_document", uid, id, TRUE, <<1, 0>>, 200)
    /\ UNCHANGED <<mailing, saving, accounts, documents, tags, document_tags, sections,
                   phases, tasks, brain, now>>

upload_new_version(uid, doc_id, has_file) ==
    /\ \E r \in {UploadNewVersionResult(cloud_documents, versions, doc_id, has_file)} :
          /\ ~VersionLess(<<2, MaxRolled>>, r.version)
          /\ versions' = r.versions
          /\ last' = VersionRequest("upload_new_version", uid, doc_id, has_file,
                                    r.version, r.status)
    /\ UNCHANGED <<mailing, saving, accounts, documents, tags, document_tags,
                   cloud_documents, sections, phases, tasks, brain, now>>

\* DELETE /writing_tool/documents/<doc_id>/versions/<version_id>
delete_version(uid, doc_id, version) ==
    /\ \E found \in {{v \in versions : v.document_id = doc_id /\ VersionOf(v) = version}} :
          /\ versions' = versions \ found
          /\ last' = VersionRequest("delete_version", uid, doc_id, FALSE, version,
                                    IF found = {} THEN 404 ELSE 200)
    /\ UNCHANGED <<mailing, saving, accounts, documents, tags, document_tags,
                   cloud_documents, sections, phases, tasks, brain, now>>

\* the version runs: the deletions name the latest version of a document
NextVersion ==
    \E uid \in {1} :
        \/ create_document(uid)
        \/ \E doc_id \in CloudDocIds, has_file \in BOOLEAN :
              upload_new_version(uid, doc_id, has_file)
        \/ \E d \in cloud_documents :
              /\ DocumentVersions(versions, d.id) # {}
              /\ delete_version(uid, d.id, LatestVersion(versions, d.id))

(***************************************************************************)
(* Outline saves that overlap other requests.  save_outline commits twice  *)
(* (after the delete and after the rebuild), so its effect reaches the     *)
(* committed rows in two steps, and other requests can run between them.   *)
(* saving holds the saves between their two commits: [n, user, body, old,  *)
(* rivals], where old is the caller's outline when the save began and      *)
(* rivals are the payloads of the caller's saves that ended meanwhile.     *)
(***************************************************************************)
\* the number of saves between their two commits
MaxInFlight == 2

\* a one-node tree and a two-node tree
Parent == [title |-> "a", summary |-> None, subsections |-> <<Leaf>>]

OverlapBodies ==
    {NoBody, [has |-> TRUE, outline |-> <<Leaf>>], [has |-> TRUE, outline |-> <<Parent>>]}

\* save_outline up to its first commit: the rows left committed
SaveOutlineDelete(db, uid) == {s \in db : s.user_id # uid}

\* save_outline from its first commit on: the rows left committed and the
\* response status
SaveOutlineRebuild(db, uid, body) ==
    LET st == _recreate_sections(body.outline, uid, db)
    IN IF st.ok THEN [db |-> st.db, status |-> 201]
       ELSE [db |-> db, status |-> 500]

save_outline_delete(uid, body) ==
    /\ Cardinality(saving) < MaxInFlight
    /\ IF ~body.has \/ body.outline = <<>>
       THEN /\ last' = Request("save_outline", uid, body, NoUpdate, 0, 400, NoData, {})
            /\ UNCHANGED <<sections, saving>>
       ELSE /\ sections' = SaveOutlineDelete(sections, uid)
            /\ saving' = saving \cup
                  {[n |-> CHOOSE k \in 1..MaxInFlight : \A r \in saving : r.n # k,
                    user |-> uid, body |-> body,
                    old |-> GetOutlineAll(sections, uid), rivals |-> {}]}
            /\ UNCHANGED last
    /\ UNCHANGED <<mailing, library, accounts, phases, tasks, brain, now>>

save_outline_rebuild(req) ==
    /\ req \in saving
    /\ \E r \in {SaveOutlineRebuild(sections, req.user, req.body)} :
          /\ \A s \in r.db : s.id <= MaxSecId
          /\ sections' = r.db
          /\ saving' = {IF x.user = req.user /\ r.status = 201
                        THEN [x EXCEPT !.rivals = @ \cup {req.body}] ELSE x :
                           x \in saving \ {req}}
          /\ last' = Request("save_outline", req.user, req.body, NoUpdate, 0, r.status,
                             NoData, {})
    /\ UNCHANGED <<mailing, library, accounts, phases, tasks, brain, now>>

NextOverlap ==
    \/ \E uid \in {1}, body \in OverlapBodies : save_outline_delete(uid, body)
    \/ \E req \in saving : save_outline_rebuild(req)
    \/ \E uid \in {1} : get_outline_all(uid)

Next == NextOutline

Spec == Init /\ [][Next]_vars

SpecEdit == Init /\ [][NextEdit]_vars

SpecUpdate == Init /\ [][NextUpdate]_vars

SpecPlan == Init /\ [][NextPlan]_vars

SpecDash == Init /\ [][NextDash]_vars

SpecReplace == Init /\ [][NextReplace]_vars

SpecTasks == Init /\ [][NextTasks]_vars

SpecCascade == Init /\ [][NextCascade]_vars

SpecBrain == Init /\ [][NextBrain]_vars

SpecAuth == Init /\ [][NextAuth]_vars

SpecCaptcha == Init /\ [][NextCaptcha]_vars

SpecExpiry == Init /\ [][NextExpiry]_vars

SpecTag == Init /\ [][NextTag]_vars

SpecAssign == Init /\ [][NextAssign]_vars

SpecDelete == Init /\ [][NextDelete]_vars

SpecVersion == Init /\ [][NextVersion]_vars

SpecOverlap == Init /\ [][NextOverlap]_vars


(***************************************************************************)
(* Outline claims                                                          *)
(***************************************************************************)
RECURSIVE StripIds(_)
\* a read-back forest without the primary keys
StripIds(forest) ==
    [i \in 1..Len(forest) |->
        [title |-> forest[i].title, summary |-> forest[i].summary,
         order |-> forest[i].order,
         subsections |-> StripIds(forest[i].subsections)]]

RECURSIVE ExpectedShape(_)
\* the payload with every descriptor's position among its siblings as order
ExpectedShape(forest) ==
    [i \in 1..Len(forest) |->
        [title |-> forest[i].title, summary |-> forest[i].summary,
         order |-> i - 1,
         subsections |-> ExpectedShape(forest[i].subsections)]]

SavedOk == last.op = "save_outline" /\ last.status = 201

\* C1: right after a successful outline save, the read of all roots by the
\* same owner returns the payload's shape: same titles, summaries, order
\* values (position among siblings) and nesting.
C1_SaveReadRoundTrip ==
    SavedOk => StripIds(GetOutlineAll(sections, last.user)) = ExpectedShape(last.body.outline)

\* rows of the same owner under the same parent
Siblings(db, s) == {t \in db : t.user_id = s.user_id /\ t.parent_id = s.parent_id}

\* C2: right after a successful outline save every Section's order is its
\* 0-based position among its siblings (siblings are created in payload
\* order, so the position is the number of siblings created before it), and
\* siblings carry pairwise distinct orders.
C2_OrderIsSiblingPosition ==
    SavedOk =>
        \A s \in sections : s.user_id = last.user =>
            /\ s.order = Cardinality({t \in Siblings(sections, s) : t.id < s.id})
            /\ \A t \in Siblings(sections, s) : t # s => t.order # s.order

\* C3: an outline save that does not succeed leaves the stored Sections as
\* they were before the request.
C3_FailedSaveKeepsSections ==
    [][(last'.op = "save_outline" /\ last'.status # 201) => sections' = sections]_vars

\* C4: an outline save with an empty or missing root list answers 400 and
\* leaves every stored Section unchanged.
C4_EmptyOutlineRejected ==
    [][(last'.op = "save_outline" /\ (~last'.body.has \/ last'.body.outline = <<>>))
          => (last'.status = 400 /\ sections' = sections)]_vars

\* an empty save was rejected while Sections of the caller were stored
C4_Witness ==
    /\ last.op = "save_outline"
    /\ last.body.has /\ last.body.outline = <<>>
    /\ last.status = 400
    /\ \E s \in sections : s.user_id = last.user

\* C5: an outline save with a descriptor that lacks a title is answered
\* with status 400, not 500.
C5_MissingTitleIs400 ==
    (last.op = "save_outline" /\ CountMissingTitles(last.body.outline) > 0)
        => last.status = 400

RECURSIVE AncestorIds(_, _)
\* the primary keys on the parent chain of a row
AncestorIds(db, s) ==
    IF s.parent_id = NoParent THEN {}
    ELSE {s.parent_id} \cup
         UNION { AncestorIds(db, p) : p \in {x \in db : x.id = s.parent_id} }

\* the rows of the subtree rooted at id
SubtreeRows(db, id) == {s \in db : s.id = id \/ id \in AncestorIds(db, s)}

\* C6: a successful delete removes exactly the Section and its transitive
\* descendants; every other row stays as it was.
C6_DeleteRemovesExactlySubtree ==
    [][(last'.op = "delete_outline" /\ last'.status = 204)
          => sections' = sections \ SubtreeRows(sections, last'.sec_id)]_vars

\* a delete removed a Section with a descendant while a Section of the
\* caller and one of another user remain
C6_Witness ==
    /\ last.op = "delete_outline" /\ last.status = 204
    /\ Cardinality(last.removed) >= 2
    /\ \E s \in sections : s.user_id = last.user
    /\ \E s \in sections : s.user_id # last.user

SingleSectionOps == {"get_outline_one", "update_outline", "delete_outline"}

\* C7: read-one, update and delete of an id that does not exist or belongs
\* to another user answer 404, return no data and change no Section.
C7_ForeignOrMissingIsNotFound ==
    [][(last'.op \in SingleSectionOps
          /\ ~\E s \in sections : s.id = last'.sec_id /\ s.user_id = last'.user)
          => (last'.status = 404 /\ last'.data = NoData /\ sections' = sections)]_vars

\* an update that names another user's Section and carries new field
\* values was answered 404
C7_Witness ==
    /\ last.op = "update_outline" /\ last.status = 404
    /\ last.update.fields = UpdateFields
    /\ \E s \in sections : s.id = last.sec_id /\ s.user_id # last.user

(***************************************************************************)
(* Planning and dashboard claims                                           *)
(***************************************************************************)
\* what user b owns, and the Tasks attached to b's Phases
OwnedBy(sec, ph, tk, b) ==
    << {s \in sec : s.user_id = b},
       {p \in ph : p.user_id = b},
       {t \in tk : t.user_id = b},
       {t \in tk : \E p \in ph : p.user_id = b /\ t.phase_id = p.id} >>

\* C8: a request by one user leaves the Sections, Phases and Tasks of every
\* other user, and the Tasks attached to their Phases, as they were.
C8_RequestsLeaveOtherUsersData ==
    [][\A b \in Users : b # last'.user =>
          OwnedBy(sections', phases', tasks', b) = OwnedBy(sections, phases, tasks, b)]_vars

CanonicalTitles ==
    << "Define Topic & Question", "Literature Review", "Identify Gaps",
       "Plan Methodology", "Write & Revise" >>

\* the caller's Phases of one title
Matching(uid, title) == {p \in phases : p.user_id = uid /\ p.title = title}

\* C9: the dashboard read returns five records in the canonical title
\* order with ids 1..5, whatever Phases the owner has, and a canonical
\* title without an owned Phase has status NotCompleted.
C9_DashboardFiveInOrder ==
    last.op = "fetch_planning" =>
        /\ Len(last.data) = 5
        /\ \A i \in 1..5 :
              /\ last.data[i].id = i
              /\ last.data[i].title = CanonicalTitles[i]
              /\ Matching(last.user, CanonicalTitles[i]) = {}
                    => last.data[i].status = "NotCompleted"

\* the dashboard was read by an owner of a non-canonical Phase, or of two
\* canonical Phases created against the canonical order
C9_Witness ==
    /\ last.op = "fetch_planning"
    /\ \/ Matching(last.user, "Other") # {}
       \/ \E p \in Matching(last.user, CanonicalTitles[1]),
             q \in Matching(last.user, CanonicalTitles[2]) : q.id < p.id

\* every Task attached to the Phase is completed, and there is one
AllTasksDone(p) ==
    /\ \E t \in tasks : t.phase_id = p.id
    /\ \A t \in tasks : t.phase_id = p.id => t.completed

\* C10: for a canonical title of which the owner has one Phase, the
\* dashboard status is Completed exactly when that Phase has a Task and all
\* its Tasks are completed, whatever the deadline; without a Phase it is
\* never Completed.
C10_CompletedIffAllTasksDone ==
    last.op = "fetch_planning" =>
        \A i \in 1..Len(last.data) :
            LET m == Matching(last.user, last.data[i].title)
            IN /\ m = {} => last.data[i].status # "Completed"
               /\ Cardinality(m) = 1 =>
                     (last.data[i].status = "Completed" <=> \A p \in m : AllTasksDone(p))

\* the dashboard reported Completed for a Phase whose deadline had passed
C10_Witness ==
    /\ last.op = "fetch_planning"
    /\ \E i \in 1..Len(last.data) :
          /\ last.data[i].status = "Completed"
          /\ \E p \in Matching(last.user, last.data[i].title) :
                /\ Cardinality(Matching(last.user, last.data[i].title)) = 1
                /\ p.deadline # NoDeadline
                /\ p.deadline * TicksPerDay + TicksPerDay <= now

\* the status of a Phase that is not Completed, from its deadline (a day
\* number or NoDeadline) and the clock: the day of the deadline is over
\* when the clock is on a later day, and the window is seven days long
StatusByDeadline(deadline, t_now) ==
    IF deadline = NoDeadline THEN "NotCompleted"
    ELSE IF t_now \div TicksPerDay > deadline THEN "Not Completed (Overdue)"
    ELSE IF (deadline + 1) * TicksPerDay - 1 - t_now <= 7 * TicksPerDay
         THEN "Not Completed (Deadline Approaching)"
    ELSE "NotCompleted"

\* C11: for a canonical title of which the owner has one Phase that is
\* not Completed (no Task, or an incomplete Task), the dashboard status
\* depends on the deadline and the clock only: no deadline gives
\* NotCompleted, an end of day before now gives Overdue, otherwise an end
\* of day at most seven days after now gives Deadline Approaching, and
\* otherwise NotCompleted.  The clock is read by the request, so the
\* property is one of the steps that answer a dashboard read.
C11_StatusFromDeadlineAndNow ==
    [][(last'.op = "fetch_planning" /\ now' = now) =>
          \A i \in 1..Len(last'.data) :
              \A p \in Matching(last'.user, last'.data[i].title) :
                  (Cardinality(Matching(last'.user, last'.data[i].title)) = 1
                   /\ ~AllTasksDone(p))
                      => last'.data[i].status = StatusByDeadline(p.deadline, now)]_vars

\* the dashboard reported Deadline Approaching for a Phase without Tasks
\* that is due today, in the last tick of the day
C11_Witness ==
    /\ last.op = "fetch_planning"
    /\ \E p \in Matching(last.user, last.data[1].title) :
          /\ Cardinality(Matching(last.user, last.data[1].title)) = 1
          /\ ~\E t \in tasks : t.phase_id = p.id
          /\ p.deadline # NoDeadline
          /\ now \div TicksPerDay = p.deadline
          /\ now % TicksPerDay = TicksPerDay - 1
    /\ last.data[1].status = "Not Completed (Deadline Approaching)"

\* the status the dashboard rules give one Phase
StatusOfPhase(p, t_now) ==
    IF AllTasksDone(p) THEN "Completed" ELSE StatusByDeadline(p.deadline, t_now)

\* C12: when the owner has several Phases of one canonical title, the
\* dashboard status of that title is the status of the first of them in
\* the owner's Phase query order (the one created first), not of a later
\* one.
C12_FirstMatchingPhaseUsed ==
    [][(last'.op = "fetch_planning" /\ now' = now) =>
          \A i \in 1..Len(last'.data) :
              \A p \in Matching(last'.user, last'.data[i].title) :
                  (\A q \in Matching(last'.user, last'.data[i].title) : p.id <= q.id)
                      => last'.data[i].status = StatusOfPhase(p, now)]_vars

(***************************************************************************)
(* Planning replace, task toggle and phase delete claims                   *)
(***************************************************************************)
\* a timeline descriptor as the planning read reports its Phase
ExpectedPhase(d) ==
    [title |-> d.title, deadline |-> d.deadline, tasks |-> d.tasks,
     total_tasks |-> Len(d.tasks),
     completed_tasks |-> Cardinality({j \in 1..Len(d.tasks) : d.tasks[j].completed})]

\* a timeline record of the planning read without the primary keys
StripPhase(r) ==
    [title |-> r.title, deadline |-> r.deadline,
     tasks |-> [j \in 1..Len(r.tasks) |->
                   [description |-> r.tasks[j].description,
                    completed |-> r.tasks[j].completed]],
     total_tasks |-> r.total_tasks, completed_tasks |-> r.completed_tasks]

\* C13: a planning save replaces the owner's planning state: afterwards
\* the owner's Sections, Phases and Tasks read back as the payload, in
\* payload order, every Task of the owner hangs on one of these Phases
\* (nothing of an earlier save remains), and what the other users own is
\* unchanged; empty sections lists and empty timelines are accepted.
C13_PlanningSaveReplaces ==
    [][\A uid \in Users, secs \in ReplaceSections, timeline \in ReplaceTimelines :
          save_planning(uid, secs, timeline) =>
             LET read == GetPlanning(sections', phases', tasks', uid)
             IN /\ last'.status = 200
                /\ StripIds(read.sections) = ExpectedShape(secs)
                /\ Len(read.timeline) = Len(timeline)
                /\ \A i \in 1..Len(timeline) :
                      StripPhase(read.timeline[i]) = ExpectedPhase(timeline[i])
                /\ \A t \in tasks' : t.user_id = uid =>
                      \E p \in phases' : p.user_id = uid /\ p.id = t.phase_id
                /\ \A b \in Users : b # uid =>
                      OwnedBy(sections', phases', tasks', b)
                         = OwnedBy(sections, phases, tasks, b)]_vars

\* the Task a toggle request names: of that id, in that Phase, of the caller
Named(req) ==
    {t \in tasks : t.id = req.task_id /\ t.phase_id = req.phase_id
                   /\ t.user_id = req.user}

\* the number of completed Tasks attached to a Phase
CompletedCount(tk, phase_id) ==
    Cardinality({t \in tk : t.phase_id = phase_id /\ t.completed})

\* C14: a toggle of a Task that exists, belongs to the given Phase and is
\* owned by the caller flips that Task's completed flag, returns the new
\* value and changes no other Task; the Phase's completed_tasks count moves
\* by exactly one (up when the new value is true), total_tasks stays,
\* completed_tasks is the number of completed Tasks of the Phase, and a
\* second toggle of the same Task restores the Tasks as they were.
C14_ToggleFlipsOneTask ==
    [][last'.op = "toggle_task" =>
          \A t \in Named(last') :
             /\ last'.status = 200
             /\ last'.data = <<[completed |-> ~t.completed]>>
             /\ tasks' = (tasks \ {t}) \cup {[t EXCEPT !.completed = ~t.completed]}
             /\ phases' = phases
             /\ \A p \in phases : p.id = t.phase_id =>
                   LET before == PhaseRecord(tasks, p)
                       after  == PhaseRecord(tasks', p)
                   IN /\ after.total_tasks = before.total_tasks
                      /\ after.completed_tasks - before.completed_tasks
                            = (IF t.completed THEN -1 ELSE 1)
                      /\ after.completed_tasks = CompletedCount(tasks', p.id)
             /\ TaskToggleResult(tasks', last'.user, last'.phase_id, last'.task_id).tk
                   = tasks]_vars

\* a toggle set a Task back to incomplete in a Phase that holds another,
\* completed Task
C14_Witness ==
    /\ last.op = "toggle_task" /\ last.status = 200
    /\ last.data = <<[completed |-> FALSE]>>
    /\ \E t \in tasks : t.id = last.task_id /\ ~t.completed
    /\ \E t \in tasks : t.id # last.task_id /\ t.phase_id = last.phase_id /\ t.completed

\* C15: a toggle that names a task id that does not exist, a Task of
\* another Phase than the given one, or a Task of another user answers
\* not-found and leaves every Task's completed flag as it was.
C15_ToggleMismatchIsNotFound ==
    [][(last'.op = "toggle_task" /\ Named(last') = {})
          => (last'.status = 404 /\ last'.data = NoData /\ tasks' = tasks)]_vars

\* a toggle of another user's Task, named with its own Phase, was answered
\* not-found
C15_Witness ==
    /\ last.op = "toggle_task" /\ last.status = 404
    /\ \E t \in tasks : /\ t.id = last.task_id
                        /\ t.phase_id = last.phase_id
                        /\ t.user_id # last.user

\* C16: whatever planning saves, phase deletes, task toggles and brainstorm
\* saves have run, every stored Task is attached to exactly one stored
\* Phase; a phase delete removes the Phase and all Tasks attached to it,
\* no other Task, no other Phase and no Section.
C16_NoOrphanTasks ==
    [][/\ \A t \in tasks' : Cardinality({p \in phases' : p.id = t.phase_id}) = 1
       /\ (last'.op = "delete_phase" /\ last'.status = 200) =>
             /\ phases' = {p \in phases : p.id # last'.phase_id}
             /\ tasks' = {t \in tasks : t.phase_id # last'.phase_id}
             /\ sections' = sections]_vars

\* a delete removed a Phase with two Tasks, one of them added by a
\* brainstorm save, while the caller keeps another Phase with a Task and
\* Sections are stored
C16_Witness ==
    /\ last.op = "delete_phase" /\ last.status = 200
    /\ Cardinality(last.removed) >= 2
    /\ \E p \in phases : /\ p.user_id = last.user
                         /\ \E t \in tasks : t.phase_id = p.id
    /\ sections # {}

(***************************************************************************)
(* Brainstorm claims                                                       *)
(***************************************************************************)
\* the Phases titled 'Define Topic & Question'
DefinePhases(ph) == {p \in ph : p.title = "Define Topic & Question"}

\* the 'Brainstorm Complete' Tasks attached to a Phase
CompleteTasks(tk, p) ==
    {t \in tk : t.phase_id = p.id /\ t.description = "Brainstorm Complete"}

\* C17: a brainstorm save stores one new entry of the caller; it adds at
\* most one Task, and that Task is 'Brainstorm Complete', completed, owned
\* by the caller and attached to a 'Define Topic & Question' Phase that had
\* no such Task, and the body had all five W fields filled; with all five
\* filled and a 'Define Topic & Question' Phase stored, none of which has
\* such a Task, the Task is added; with a field missing no Task is added;
\* and no Phase ever holds more than one 'Brainstorm Complete' Task.
C17_BrainstormHookAddsOnce ==
    [][/\ \A p \in phases' : Cardinality(CompleteTasks(tasks', p)) <= 1
       /\ last'.op = "save_brainstorm" =>
             LET added == tasks' \ tasks
                 full  == last'.filled = {"why", "what", "where", "when", "who"}
             IN /\ last'.status = 201
                /\ \E e \in brain' : /\ e \notin brain
                                      /\ e.user_id = last'.user
                                      /\ brain' = brain \cup {e}
                /\ tasks \subseteq tasks' /\ phases' = phases
                /\ Cardinality(added) <= 1
                /\ \A t \in added :
                      /\ full
                      /\ t.description = "Brainstorm Complete"
                      /\ t.completed /\ t.user_id = last'.user
                      /\ \E p \in DefinePhases(phases) :
                            p.id = t.phase_id /\ CompleteTasks(tasks, p) = {}
                /\ (/\ full
                    /\ DefinePhases(phases) # {}
                    /\ \A p \in DefinePhases(phases) : CompleteTasks(tasks, p) = {})
                      => added # {}
                /\ ~full => added = {}]_vars

\* a save with all five W fields filled found the only 'Define Topic &
\* Question' Phase holding the Task that an earlier save, of the other
\* caller, had added
C17_Witness ==
    /\ last.op = "save_brainstorm"
    /\ last.filled = {"why", "what", "where", "when", "who"}
    /\ Cardinality(brain) >= 2
    /\ Cardinality(DefinePhases(phases)) = 1
    /\ \A p \in DefinePhases(phases) :
          /\ Cardinality(CompleteTasks(tasks, p)) = 1
          /\ \A t \in CompleteTasks(tasks, p) : t.user_id # last.user

\* C18: a brainstorm save with all five W fields filled by an owner
\* without a 'Define Topic & Question' Phase leaves that owner with exactly
\* one such Phase, and when the owner has the Phase no second is created.
C18_HookCreatesPhaseWhenAbsent ==
    [][(last'.op = "save_brainstorm"
          /\ last'.filled = {"why", "what", "where", "when", "who"}) =>
          LET before == {p \in DefinePhases(phases) : p.user_id = last'.user}
              after  == {p \in DefinePhases(phases') : p.user_id = last'.user}
          IN /\ before = {} => Cardinality(after) = 1
             /\ before # {} => after = before]_vars

(***************************************************************************)
(* Account claims                                                          *)
(***************************************************************************)
\* C19: once a registration was answered 'Registration successful', every
\* later login with its username and password returns an access token;
\* a login with a username no successful registration carried, or with
\* another password than the registered one, is answered 401 without a
\* token.
C19_RegisteredUserCanLogIn ==
    [][\A data \in LoginBodies : login(data) =>
          IF \E a \in accepted : /\ a.username = data.username
                                  /\ a.password = data.password
          THEN /\ last'.status = 200
               /\ \E id \in 1..Cardinality(accepted) :
                     last'.data = <<[access_token |-> id]>>
          ELSE /\ last'.status = 401
               /\ last'.data = <<[msg |-> "Invalid username or password"]>>]_vars

\* a body lacks username, email or password
MissingFields(data) ==
    data.username = None \/ data.email = None \/ data.password = None

\* C20: no two stored users share a username or an email; a registration
\* with a missing field is answered 400, one whose username, or else
\* whose email, is that of an earlier successful registration is answered
\* 400 with 'Username already exists', or else 'Email already exists', and
\* none of these creates a user.
C20_NoDuplicateUsers ==
    [][/\ \A u, v \in users' \cup pending' :
             (u.username = v.username \/ u.email = v.email) => u = v
       /\ \A data \in RegisterBodies : register(data) =>
             LET rejected == /\ last'.status = 400
                             /\ users' = users /\ pending' = pending
             IN /\ MissingFields(data) => rejected
                /\ (~MissingFields(data)
                      /\ (\E a \in accepted : a.username = data.username))
                      => (rejected /\ last'.data = <<[msg |-> "Username already exists"]>>)
                /\ (~MissingFields(data)
                      /\ (~\E a \in accepted : a.username = data.username)
                      /\ (\E a \in accepted : a.email = data.email))
                      => (rejected /\ last'.data = <<[msg |-> "Email already exists"]>>)]_vars

(***************************************************************************)
(* Captcha and password reset claims                                       *)
(***************************************************************************)
\* the password column of every User row the session sees, by primary key
Passwords_of(committed, flushed) ==
    {<<u.id, u.password>> : u \in Visible(committed, flushed)}

\* the stored captcha records whose email and code equal those of a body
MatchingCaptchas(rows, data) ==
    {c \in rows : c.email = data.email /\ c.captcha = data.captcha}

\* the body of the reset request a step answered
ResetBodyOf(req) ==
    [email |-> req.cred.email, captcha |-> req.captcha,
     new_password |-> req.cred.password]

\* a reset body lacks email, captcha or new_password
MissingResetFields(data) ==
    data.email = None \/ data.captcha = NoCode \/ data.new_password = None

\* C21: a password reset changes a password only when a stored captcha
\* record has the email and the code of the request and the email is that
\* of a registered user; with a missing field or no such record it is
\* answered 400, with an unregistered email 404, and then every user's
\* password is what it was.
C21_ResetNeedsMatchingCaptcha ==
    [][\A data \in {ResetBodyOf(last')} :
          (last'.op = "reset_password" /\ reset_password(data)) =>
          LET matched == ~MissingResetFields(data)
                            /\ MatchingCaptchas(captchas, data) # {}
              registered == \E u \in Visible(users, pending) : u.email = data.email
              unchanged == Passwords_of(users', pending') = Passwords_of(users, pending)
          IN /\ ~unchanged => (matched /\ registered)
             /\ ~matched => (last'.status = 400 /\ unchanged)
             /\ (matched /\ ~registered) => (last'.status = 404 /\ unchanged)]_vars

\* a reset replaced the password of the account of e1 although another
\* code than the presented one is stored for e2
C21_Witness ==
    /\ last.op = "reset_password" /\ last.status = 200
    /\ \E u \in users : u.email = last.cred.email /\ u.password = Hash("q")
    /\ \E c \in captchas : c.email = last.cred.email /\ c.captcha = last.captcha
    /\ \E c \in captchas : c.email # last.cred.email /\ c.captcha # last.captcha

\* the validity the mail announces, and the length of a tick of the clock
ValidMinutes == 10
MinutesPerTick == (24 * 60) \div TicksPerDay

\* a captcha record was created more than ValidMinutes before t_now
Expired(c, t_now) == (t_now - c.created_at) * MinutesPerTick > ValidMinutes

\* C22: a reset presenting a code all of whose captcha records were created
\* more than 10 minutes earlier is answered 400 'Invalid or expired
\* captcha' and changes no password.
C22_ExpiredCodeRejected ==
    [][\A data \in {ResetBodyOf(last')} :
          (last'.op = "reset_password" /\ reset_password(data)) =>
          ((\A c \in MatchingCaptchas(captchas, data) : Expired(c, now))
             => /\ last'.status = 400
                /\ last'.data = <<[code |-> 400,
                                   message |-> "Invalid or expired captcha"]>>
                /\ Passwords_of(users', pending') = Passwords_of(users, pending))]_vars

\* a string of CodeLen decimal digits
IsSixDigits(code) ==
    /\ Len(code) = 6
    /\ \A i \in 1..Len(code) :
          code[i] \in {"0", "1", "2", "3", "4", "5", "6", "7", "8", "9"}

\* C30: a captcha request without email is answered 400 and one whose mail
\* send fails 500, and neither stores a record; a successful request stores
\* exactly one record, holding the 6-digit code of the one message it
\* mailed to that email; so every stored record's code was mailed to its
\* email.
C30_CaptchaStoredAfterMail ==
    [][/\ \A c \in captchas' : \E i \in 1..Len(outbox') :
             outbox'[i] = [recipient |-> c.email, code |-> c.captcha]
       /\ \A email \in {last'.cred.email}, code \in {last'.captcha},
             sent \in {last'.sent} :
             (last'.op = "send_email_captcha" /\ send_email_captcha(email, code, sent)) =>
                /\ email = None => (last'.status = 400 /\ UNCHANGED mailing)
                /\ (email # None /\ ~sent) => (last'.status = 500 /\ UNCHANGED mailing)
                /\ (email # None /\ sent) =>
                      /\ last'.status = 200
                      /\ captchas \subseteq captchas'
                      /\ \E c \in captchas' \ captchas :
                            /\ captchas' \ captchas = {c}
                            /\ c.email = email /\ c.captcha = code
                            /\ IsSixDigits(c.captcha)
                      /\ outbox' = Append(outbox, [recipient |-> email, code |-> code])]_vars

\* a mail send failed after an earlier request stored its record
C30_Witness ==
    /\ last.op = "send_email_captcha" /\ last.status = 500
    /\ Cardinality(captchas) = 1
    /\ Len(outbox) = 1
    /\ \E c \in captchas : c.captcha # last.captcha /\ c.email = last.cred.email

(***************************************************************************)
(* Tag claims                                                              *)
(***************************************************************************)
\* the tags of other users than uid, and the document_tags rows of those tags
TagsOfOthers(tg, uid) == {t \in tg : t.user_id # uid}

RowsOfOthers(tg, rows, uid) ==
    {r \in rows : \E t \in TagsOfOthers(tg, uid) : t.id = r.tag_id}

\* C23: add_tag with a name that is empty or only whitespace is answered
\* 400 and stores no tag; with any other name it returns the id of the one
\* tag of the trimmed name the caller has afterwards, and when the caller
\* had a tag of that name before, it is that tag and no row changes.
C23_AddTagIdempotent ==
    [][(last'.op = "add_tag" /\ add_tag(last'.user, last'.name)) =>
          LET name == strip(last'.name)
              after == UserTag(tags', last'.user, name)
          IN IF name = <<>>
             THEN last'.status = 400 /\ tags' = tags
             ELSE /\ last'.status = 200
                  /\ Cardinality(after) = 1
                  /\ \A t \in after : last'.data = <<[id |-> t.id, name |-> name]>>
                  /\ UserTag(tags, last'.user, name) # {} => tags' = tags]_vars

\* document d of the request belongs to another user than the caller
ForeignDocument(docs, uid, doc_id) == \E d \in docs : d.id = doc_id /\ d.user_id # uid

\* tag id of the request is that of a tag of another user than the caller
ForeignTag(tg, uid, tag_id) == \E t \in tg : t.id = tag_id /\ t.user_id # uid

C25_DeleteTagRemovesAssociations ==
    [][(last'.op = "delete_tag" /\ delete_tag(last'.user, last'.tag_id)) =>
          LET uid == last'.user
              tag_id == last'.tag_id
          IN /\ UserTagById(tags, uid, tag_id) # {} =>
                   /\ last'.status = 200
                   /\ tags' = {t \in tags : t.id # tag_id}
                   /\ document_tags' = {r \in document_tags : r.tag_id # tag_id}
             /\ ForeignTag(tags, uid, tag_id) =>
                   /\ last'.status = 404
                   /\ tags' = tags /\ document_tags' = document_tags]_vars

\* a tag that two documents carried was deleted; another tag and its
\* assignment remain
C25_Witness ==
    /\ last.op = "delete_tag" /\ last.status = 200
    /\ Cardinality(last.removed) = 2
    /\ tags # {} /\ document_tags # {}

\* C29: add_tag, assign_tag (to a document of the caller) and
\* update_tag_name (of a tag of the caller) with a name that a tag of
\* another user has succeed: the caller has a tag of that name afterwards
\* and the other users' tags and their document_tags rows are unchanged;
\* the tag list of a user holds exactly that user's tags.
C29_TagsNamespacedPerUser ==
    [][LET uid == last'.user
           name == strip(last'.name)
           used == \E t \in TagsOfOthers(tags, uid) : t.name = name
           succeeded ==
               /\ last'.status = 200
               /\ UserTag(tags', uid, name) # {}
               /\ TagsOfOthers(tags', uid) = TagsOfOthers(tags, uid)
               /\ RowsOfOthers(tags', document_tags', uid)
                     = RowsOfOthers(tags, document_tags, uid)
       IN /\ (last'.op = "add_tag" /\ add_tag(uid, last'.name) /\ used) => succeeded
          /\ (last'.op = "assign_tag"
                /\ assign_tag(uid, last'.document_id, last'.name)
                /\ used /\ UserDocument(documents, uid, last'.document_id) # {})
                => succeeded
          /\ (last'.op = "update_tag_name"
                /\ update_tag_name(uid, last'.tag_id, last'.name)
                /\ used /\ UserTagById(tags, uid, last'.tag_id) # {})
                => succeeded
          /\ (last'.op = "list_tags" /\ list_tags(uid)) =>
                {last'.data[i].id : i \in 1..Len(last'.data)}
                   = {t.id : t \in tags \ TagsOfOthers(tags, uid)}]_vars

(***************************************************************************)
(* Version claims                                                          *)
(***************************************************************************)
\* C26: an accepted upload stores one new version of its document: (1,0)
\* when the document has none, otherwise (M,m+1) from the latest (M,m)
\* with m < 9 and (M+1,0) from (M,9); the minor version is in 0..9, the
\* new version is above every version the document has, and above the
\* version of the upload to the same document that came just before.
C26_VersionNumbering ==
    [][(last'.op = "upload_new_version" /\ last'.status = 200
          /\ upload_new_version(last'.user, last'.document_id, last'.has_file)) =>
          LET doc_id == last'.document_id
              old == DocumentVersions(versions, doc_id)
              new == last'.version
          IN /\ versions' = versions \cup {VersionRow(doc_id, new)}
             /\ old = {} => new = <<1, 0>>
             /\ \A latest \in old :
                   (\A b \in old : b = latest \/ VersionLess(b, latest)) =>
                      /\ latest[2] < 9 => new = <<latest[1], latest[2] + 1>>
                      /\ latest[2] = 9 => new = <<latest[1] + 1, 0>>
             /\ new[2] \in 0..9
             /\ \A b \in old : VersionLess(b, new)
             /\ (last.op = "upload_new_version" /\ last.status = 200
                   /\ last.document_id = doc_id) => VersionLess(last.version, new)]_vars

\* a document whose versions were all deleted got (1,0) again while
\* another document has rolled over to (2,0)
C26_Witness ==
    /\ last.op = "upload_new_version" /\ last.status = 200
    /\ last.version = <<1, 0>>
    /\ \E d \in cloud_documents :
          /\ d.id # last.document_id
          /\ <<2, 0>> \in DocumentVersions(versions, d.id)
          /\ <<1, 9>> \in DocumentVersions(versions, d.id)

(***************************************************************************)
(* Outline tree claims                                                     *)
(***************************************************************************)
\* C27: in every state reached by outline saves, updates and deletes of
\* any users, every Section with a parent refers to a stored Section of
\* the same owner.
C27_ParentsExistSameOwner ==
    \A s \in sections :
        s.parent_id # NoParent =>
           \E p \in sections : p.id = s.parent_id /\ p.user_id = s.user_id

\* a subtree was deleted while a child Section of one user and Sections of
\* the other user remain
C27_Witness ==
    /\ last.op = "delete_outline" /\ last.status = 204
    /\ \E s, t \in sections : s.parent_id # NoParent /\ t.user_id # s.user_id

\* the saves of a user that are between their two commits
InFlight(sv, uid) == {r \in sv : r.user = uid}

\* C28: a read by an owner one of whose saves is between its commits
\* returns the complete outline from before such a save or the complete
\* tree of its payload; and when the last of an owner's overlapping saves
\* ends, the owner's outline is the tree of its payload or of the payload
\* of a save of that owner that ended while it ran.
C28_SaveIsAtomic ==
    [][/\ \A uid \in {last'.user} :
             (last'.op = "get_outline" /\ get_outline_all(uid)
                /\ InFlight(saving, uid) # {}) =>
                \E r \in InFlight(saving, uid) :
                   \/ last'.data = r.old
                   \/ StripIds(last'.data) = ExpectedShape(r.body.outline)
       /\ \A req \in saving :
             (save_outline_rebuild(req) /\ last'.status = 201
                /\ InFlight(saving', req.user) = {}) =>
                \E body \in {req.body} \cup req.rivals :
                   StripIds(GetOutlineAll(sections', req.user))
                      = ExpectedShape(body.outline)]_vars
====
